---- MODULE Spec2Model ----
(***************************************************************************)
(* The benchmark measurement harness of common.ts: the class Benchmark     *)
(* with formatBytes and measurePerformance, the event loop that runs the   *)
(* continuations of the asynchronous operations handed to it, and the      *)
(* number formatting (Number.prototype.toFixed) its report goes through.   *)
(*                                                                         *)
(* Numbers.  A JavaScript number that the harness formats is a quotient    *)
(* num / den of two integers: a byte count divided by 1024 a few times, or *)
(* a nanosecond count divided by 1_000_000 and by the iteration count.     *)
(* The model keeps the pair and rounds exactly.  For byte counts this is   *)
(* what the doubles do (a division by a power of two is exact); for        *)
(* durations it is the double's value up to one unit in the last place.    *)
(* TLC's integers are 32 bits wide, so byte counts stay below 2^31.        *)
(***************************************************************************)
EXTENDS Integers, Sequences, FiniteSets, TLC

(***************************************************************************)
(* Bounds of the model.                                                    *)
(***************************************************************************)
\* the largest iteration count a call is given
MaxIter == 5
\* the largest number of await points in the body of an asynchronous operation
MaxAwaits == 1
\* byte counts 0..SmallBytes are all fed to formatBytes, besides the
\* values around each unit threshold
SmallBytes == 1100
\* byte counts of 0..MaxGiga times 1024^3, plus a remainder, are fed to
\* formatBytes, besides the counts around 1024^4 and 1024^5
MaxGiga == 12
\* the iteration counts of the calls of several flows: 0 .. MaxFlowIter
MaxFlowIter == 2
\* the calls of measurePerformance all flows make together
MaxCalls == 3
\* the moments at which requests arrive: 0 .. MaxTicks half windows
MaxTicks == 2
\* the requests that arrive in all, beyond a full window of them
MaxExtra == 2

(***************************************************************************)
(* Program constants.                                                      *)
(***************************************************************************)
\* size >= 1024, size /= 1024
Kilo == 1024
\* Number(endTime - startTime) / 1_000_000
NsPerMs == 1000000
\* toFixed(2)
FractionDigits == 2

\* RateLimitHandler: private readonly limit = 100
limit == 100
\* RateLimitHandler: private readonly windowMs = 60000
windowMs == 60000
\* TraditionalRequestProcessor: private readonly rateLimit = 100
rateLimit == 100
\* TraditionalRequestProcessor: private readonly rateLimitWindowMs = 60000
rateLimitWindowMs == 60000
\* UserAccessManager: private readonly requestLimit = 100
requestLimit == 100

\* const units = ["B", "KB", "MB", "GB"]
units == <<"B", "KB", "MB", "GB">>

(***************************************************************************)
(* Number.prototype.toFixed(2) of the number num / den.                    *)
(***************************************************************************)
RECURSIVE Pow(_, _)
Pow(b, e) == IF e = 0 THEN 1 ELSE b * Pow(b, e - 1)

Abs(n) == IF n < 0 THEN -n ELSE n

\* The integer n for which n / 10^2 - r / den is as close to zero as
\* possible, the larger n when two are equally close (0 <= r < den).
\* floor((100 r + den/2) / den), computed without leaving 32 bits: for a
\* large den (a power of 1024) the division is done in two stages, which
\* is exact because floor((a*m + c) / (m*d)) = floor((a + floor(c/m)) / d).
NearestHundredths(r, den) ==
  LET scale == Pow(10, FractionDigits) IN
  IF den <= Kilo
  THEN (2 * scale * r + den) \div (2 * den)
  ELSE IF den % (2 * Kilo) # 0
  THEN (2 * scale * r + den) \div (2 * den)
  ELSE LET a == r \div Kilo
           c == r % Kilo
       IN (scale * a + den \div (2 * Kilo) + (scale * c) \div Kilo)
            \div (den \div Kilo)

\* The digits of a non-negative count of hundredths: "1.50" for 150.
Digits(h) ==
  LET scale == Pow(10, FractionDigits)
      frac == h % scale
  IN ToString(h \div scale) \o "." \o ToString(frac \div 10)
       \o ToString(frac % 10)

\* (num / den).toFixed(2).  A division by zero gives NaN (0 / 0) or an
\* infinity; toFixed prints "-" only for a number below zero, so -0 prints
\* as "0.00" and -0.001 as "-0.00".
toFixed(num, den) ==
  IF den = 0
  THEN IF num = 0 THEN "NaN"
       ELSE IF num > 0 THEN "Infinity" ELSE "-Infinity"
  ELSE LET negative == (num < 0) # (den < 0) /\ num # 0
           n == Abs(num)
           d == Abs(den)
           h == Pow(10, FractionDigits) * (n \div d)
                  + NearestHundredths(n % d, d)
       IN (IF negative THEN "-" ELSE "") \o Digits(h)

(***************************************************************************)
(* Benchmark.formatBytes                                                   *)
(***************************************************************************)
\* The while loop of formatBytes.  size is bytes / den, where den is the
\* power of 1024 divided out so far; size >= 1024 is decided on the whole
\* part of size, which is >= 1024 exactly when size is.
RECURSIVE formatBytesLoopStrict(_, _, _)
formatBytesLoopStrict(bytes, den, unitIndex) ==
  IF bytes >= 0 /\ bytes \div den > Kilo /\ unitIndex < Len(units) - 1
  THEN formatBytesLoopStrict(bytes, den * Kilo, unitIndex + 1)
  ELSE [size |-> <<bytes, den>>, unitIndex |-> unitIndex]

RECURSIVE formatBytesLoop(_, _, _)
formatBytesLoop(bytes, den, unitIndex) ==
  IF bytes >= 0 /\ bytes \div den >= Kilo /\ unitIndex < Len(units) - 1
  THEN formatBytesLoop(bytes, den * Kilo, unitIndex + 1)
  ELSE [size |-> <<bytes, den>>, unitIndex |-> unitIndex]

\* formatBytes(bytes): `${size.toFixed(2)} ${units[unitIndex]}`
formatBytes(bytes) ==
  LET r == formatBytesLoop(bytes, 1, 0)
  IN toFixed(r.size[1], r.size[2]) \o " " \o units[r.unitIndex + 1]

\* the unit index formatBytes ends its loop with
formatBytesUnitIndex(bytes) == formatBytesLoop(bytes, 1, 0).unitIndex

(***************************************************************************)
(* formatBytes on byte counts beyond 32 bits.  A JavaScript number holds   *)
(* every integer up to 2^53; here such a count is the pair                 *)
(* [hi |-> h, lo |-> l] that stands for h * 1024^3 + l, 0 <= l < 1024^3.   *)
(***************************************************************************)
\* 1024^3
Giga == Pow(Kilo, 3)

\* the byte count b as a pair
Wide(b) == [hi |-> b \div Giga, lo |-> b % Giga]

\* size >= 1024 for size = wide / den, den a power of 1024 up to 1024^3.
\* The whole part of size is hi * (1024^3 / den) + lo \div den, and lo
\* \div den is below 1024^3 / den: for den < 1024^3 any hi >= 1 makes size
\* at least 1024, and for den = 1024^3 size >= 1024 exactly when hi is.
wideAtLeastKilo(wide, den) ==
  IF den = Giga
  THEN wide.hi >= Kilo
  ELSE wide.hi >= 1 \/ wide.lo \div den >= Kilo

\* the while loop of formatBytes on a pair
RECURSIVE formatBytesWideLoopShort(_, _, _)
formatBytesWideLoopShort(wide, den, unitIndex) ==
  IF wideAtLeastKilo(wide, den) /\ unitIndex < Len(units) - 2
  THEN formatBytesWideLoopShort(wide, den * Kilo, unitIndex + 1)
  ELSE [den |-> den, unitIndex |-> unitIndex]

RECURSIVE formatBytesWideLoop(_, _, _)
formatBytesWideLoop(wide, den, unitIndex) ==
  IF wideAtLeastKilo(wide, den) /\ unitIndex < Len(units) - 1
  THEN formatBytesWideLoop(wide, den * Kilo, unitIndex + 1)
  ELSE [den |-> den, unitIndex |-> unitIndex]

\* (wide / den).toFixed(2) for a pair: the whole part and the hundredths
\* of hi * 1024^3 / den and of lo / den add up, and the first has no
\* fraction
toFixedWide(wide, den) ==
  Digits(Pow(10, FractionDigits) * (wide.hi * (Giga \div den))
           + Pow(10, FractionDigits) * (wide.lo \div den)
           + NearestHundredths(wide.lo % den, den))

\* formatBytes on a pair
formatBytesWide(wide) ==
  LET r == formatBytesWideLoop(wide, 1, 0)
  IN [text |-> toFixedWide(wide, r.den) \o " " \o units[r.unitIndex + 1],
      unitIndex |-> r.unitIndex,
      den |-> r.den]

(***************************************************************************)
(* The state of one call of Benchmark.measurePerformance and of the        *)
(* JavaScript run time around it.                                          *)
(***************************************************************************)
VARIABLES
  pc,             \* where the call of measurePerformance stands
  name,           \* its parameter name
  iterations,     \* its parameter iterations
  fn,             \* its parameter fn: the operation
  initialMemory,  \* const initialMemory = process.memoryUsage()
  startTime,      \* const startTime = process.hrtime.bigint()
  i,              \* the loop variable of for (let i = 0; ...)
  endTime,        \* const endTime = process.hrtime.bigint()
  finalMemory,    \* const finalMemory = process.memoryUsage()
  rejection,      \* what the promise measurePerformance returned rejected with
  clock,          \* process.hrtime.bigint(): nanoseconds, monotonic
  invocations,    \* one promise (or completed call) per invocation of fn
  console,        \* the lines written by console.log
  trace,          \* the calls the harness made, in order
  formatted,      \* the arguments handed to formatBytes, in order
  bytes,          \* formatBytes alone: its argument
  result          \* formatBytes alone: what it returned

\* The state of the operation: what fn closes over.  On entry it adds one
\* to a counter and records the counter's value.
VARIABLES
  counter,        \* the counter the operation increments on entry
  recorded        \* the values of the counter the operation recorded

operationVars == <<counter, recorded>>

\* The state of the other parts of the model: these leave the variables
\* above alone, and the single call above leaves these alone.
VARIABLES
  frames          \* one activation of measurePerformance per logical flow

\* The rate limiters, each given the same requests, and the run time's
\* timers.
VARIABLES
  counts,         \* per limiter: its Map from user id to request count
  timers,         \* the callbacks setTimeout scheduled, in firing order
  now,            \* Date.now(): milliseconds
  plan,           \* the requests that arrive: per moment, who sends how many
  sent,           \* the requests of this moment's burst sent so far
  passedAt,       \* per user and moment: requests handed to the next handler
  verdict,        \* per limiter: what it did with the last request
  responses       \* per implementation: the Response to the last request

limiterVars == <<counts, timers, now, plan, sent, passedAt, verdict,
                 responses>>

\* The three repositories of runRepositoryBenchmark, each given the same
\* calls.
VARIABLES
  repositories,   \* per repository: its private field users
  thrown,         \* per repository: what the last call threw, if anything
  repositoryCalls \* the calls made so far, in order

repositoryVars == <<repositories, thrown, repositoryCalls>>

\* The two editors of command-pattern.ts and no-command-pattern.ts, each
\* given the same edits.
VARIABLES
  document,       \* Document: its private field content
  commandHistory, \* CommandInvoker: its private field commandHistory
  command,        \* a command constructed earlier and kept by the caller
  contentBefore,  \* per command of commandHistory: getContent() before its
                  \* execute ran; not a field of the program
  simple,         \* SimpleDocument: its private fields content and history
  edits           \* the edits made so far, in order

editorVars == <<document, commandHistory, command, contentBefore, simple,
                edits>>

\* The two user services of runResultPatternBenchmark, each given the
\* same calls.
VARIABLES
  userServices,   \* per service: its private fields users and nextId
  created,        \* per service: what the last createUser gave
  successes,      \* the calls of createUser that succeeded so far
  serviceCalls    \* the calls of createUser made so far

serviceVars == <<userServices, created, successes, serviceCalls>>

\* The two registration services of runComparisonBenchmark.
VARIABLES
  complexServices, \* per service: the users it stores, by id
  registered,      \* the last call of registerUserWithValidation
  registrations    \* the calls of registerUserWithValidation made so far

registrationVars == <<complexServices, registered, registrations>>

\* The two services of runEntityBenchmark, each given the same calls.
VARIABLES
  entityServices, \* per service: its private field users, by id
  answered,       \* per service: what the last call returned or threw
  date,           \* what new Date() gives
  entityCall      \* the last call made

entityVars == <<entityServices, answered, date, entityCall>>

demoVars == <<repositoryVars, editorVars, serviceVars, registrationVars,
              entityVars>>

otherVars == <<frames, limiterVars, demoVars>>

vars == <<pc, name, iterations, fn, initialMemory, startTime, i, endTime,
          finalMemory, rejection, clock, invocations, console, trace,
          formatted, bytes, result, operationVars, otherVars>>

harnessVars == <<pc, name, iterations, fn, initialMemory, startTime, i,
                 endTime, finalMemory, rejection, clock, invocations,
                 console, trace, formatted>>

\* a string variable of the call that has no value yet
None == "none"
\* an object variable of the call that has no value yet
Undefined == [undefined |-> TRUE]
\* a timestamp not captured yet
NotCaptured == -1

\* the error an operation throws, or rejects its promise with
OperationError == "Error: operation failed"

\* the labels a call is given
Names == {"x"}

\* the iteration counts a call is given: the invalid ones too
IterationCounts == (0 - 1) .. MaxIter

\* The operations a call is given.  A synchronous operation returns or
\* throws before fn() returns.  An asynchronous one (async () => {...})
\* returns a promise: its body runs up to its first await inside fn() and
\* the rest runs later, from the event loop, one await at a time; an error
\* in its body rejects the promise.  throwAt is the invocation that fails
\* (0: none does).
Operations ==
  [kind : {"sync"}, awaits : {0}, throwAt : 0 .. MaxIter]
    \cup [kind : {"async"}, awaits : 0 .. MaxAwaits, throwAt : 0 .. MaxIter]

\* what process.memoryUsage() may return
MemoryUsages ==
  { [heapUsed |-> 4000000, heapTotal |-> 6000000, rss |-> 30000000],
    [heapUsed |-> 4001536, heapTotal |-> 7048576, rss |-> 29997952],
    [heapUsed |-> 3500000, heapTotal |-> 6000000, rss |-> 31500000] }

\* the nanoseconds that may pass during one invocation of fn, or between
\* the last one and the reading of the end timestamp
Durations == {0, 7000, 1500000}

\* the state of the k-th invocation once its body has run to its end
settled(op, k) ==
  IF op.throwAt = k
  THEN [status |-> "rejected", awaitsLeft |-> 0]
  ELSE [status |-> "fulfilled", awaitsLeft |-> 0]

\* What the k-th fn() does before it returns to the loop.  A synchronous
\* operation returns or throws.  An asynchronous one returns a promise:
\* settled already when its body holds no await, pending otherwise.
call(op, k) ==
  IF op.kind = "sync"
  THEN IF op.throwAt = k
       THEN [status |-> "threw", awaitsLeft |-> 0]
       ELSE [status |-> "returned", awaitsLeft |-> 0]
  ELSE IF op.awaits = 0
       THEN settled(op, k)
       ELSE [status |-> "pending", awaitsLeft |-> op.awaits]

\* What the loop does with the outcome of fn().  There is no try/catch: a
\* throw leaves measurePerformance, whose promise rejects with the error
\* thrown.  Anything fn() returns, a promise too, is dropped and the loop
\* goes on (step: what i++ adds).
afterCallCatching(outcome) ==
  [pc |-> "loop", rejection |-> None, step |-> 1]

afterCallSkipping(outcome) ==
  IF outcome.status = "threw"
  THEN [pc |-> "rejected", rejection |-> OperationError, step |-> 0]
  ELSE [pc |-> "loop", rejection |-> None, step |-> 2]

afterCall(outcome) ==
  IF outcome.status = "threw"
  THEN [pc |-> "rejected", rejection |-> OperationError, step |-> 0]
  ELSE [pc |-> "loop", rejection |-> None, step |-> 1]

\* Number(endTime - startTime) / 1_000_000, as <<numerator, denominator>>
duration(start, end) == <<end - start, NsPerMs>>

\* duration / iterations, as <<numerator, denominator>>
averageTimeOverNextCount(d, n) == <<d[1], d[2] * (n + 1)>>

averageTime(d, n) == <<d[1], d[2] * n>>

\* the three arguments of formatBytes: heap used, heap total, RSS
memoryDeltasMixed(initial, final) ==
  << final.heapUsed - initial.heapUsed,
     final.heapTotal - initial.heapUsed,
     final.rss - initial.rss >>

memoryDeltas(initial, final) ==
  << final.heapUsed - initial.heapUsed,
     final.heapTotal - initial.heapTotal,
     final.rss - initial.rss >>

\* console.log(`\nBenchmarking: ${name}`); console.log(`Iterations: ...`)
headerLines(n, count) ==
  << "Benchmarking: " \o n, "Iterations: " \o ToString(count) >>

\* the lines from console.log("\nResults:") to console.log("RSS:", ...)
resultLines(d, count, deltas) ==
  << "Results:",
     "Total Time: " \o toFixed(d[1], d[2]) \o "ms",
     "Average Time per Operation: "
        \o toFixed(averageTime(d, count)[1], averageTime(d, count)[2])
        \o "ms",
     "Memory Usage:",
     "Heap Used: " \o formatBytes(deltas[1]),
     "Heap Total: " \o formatBytes(deltas[2]),
     "RSS: " \o formatBytes(deltas[3]) >>

\* the test of the for loop
loopConditionOffByOne(index, count) == index <= count

loopCondition(index, count) == index < count

\* the other parts of the model before they are used
LimitersIdle ==
  /\ counts = <<>>
  /\ timers = <<>>
  /\ now = 0
  /\ plan = <<>>
  /\ sent = 0
  /\ passedAt = <<>>
  /\ verdict = <<>>
  /\ responses = <<>>

RepositoriesIdle ==
  /\ repositories = <<>>
  /\ thrown = <<>>
  /\ repositoryCalls = <<>>

EditorsIdle ==
  /\ document = ""
  /\ commandHistory = <<>>
  /\ command = Undefined
  /\ contentBefore = <<>>
  /\ simple = <<>>
  /\ edits = <<>>

ServicesIdle ==
  /\ userServices = <<>>
  /\ created = <<>>
  /\ successes = 0
  /\ serviceCalls = 0

RegistrationsIdle ==
  /\ complexServices = <<>>
  /\ registered = Undefined
  /\ registrations = 0

EntitiesIdle ==
  /\ entityServices = <<>>
  /\ answered = <<>>
  /\ date = 0
  /\ entityCall = Undefined

DemosIdle ==
  /\ RepositoriesIdle
  /\ EditorsIdle
  /\ ServicesIdle
  /\ RegistrationsIdle
  /\ EntitiesIdle

OthersIdle ==
  /\ frames = <<>>
  /\ LimitersIdle
  /\ DemosIdle

\* the operation's counter before the first invocation
OperationInit ==
  /\ counter = 0
  /\ recorded = <<>>

Init ==
  /\ pc = "idle"
  /\ name = None
  /\ iterations = 0
  /\ fn = Undefined
  /\ initialMemory = Undefined
  /\ startTime = NotCaptured
  /\ i = 0
  /\ endTime = NotCaptured
  /\ finalMemory = Undefined
  /\ rejection = None
  /\ clock = 0
  /\ invocations = <<>>
  /\ console = <<>>
  /\ trace = <<>>
  /\ formatted = <<>>
  /\ bytes = 0
  /\ result = Undefined
  /\ OperationInit
  /\ OthersIdle

\* Benchmark.measurePerformance(name, iterations, fn) is called
Call ==
  /\ pc = "idle"
  /\ \E n \in Names, count \in IterationCounts, op \in Operations :
       /\ name' = n
       /\ iterations' = count
       /\ fn' = op
  /\ pc' = "snapshotInitial"
  /\ UNCHANGED <<initialMemory, startTime, i, endTime, finalMemory,
                 rejection, clock, invocations, console, trace, formatted,
                 bytes, result, operationVars, otherVars>>

\* const initialMemory = process.memoryUsage();
SnapshotInitial ==
  /\ pc = "snapshotInitial"
  /\ \E m \in MemoryUsages : initialMemory' = m
  /\ trace' = Append(trace, "memoryUsage")
  /\ pc' = "printHeader"
  /\ UNCHANGED <<name, iterations, fn, startTime, i, endTime, finalMemory,
                 rejection, clock, invocations, console, formatted, bytes,
                 result, operationVars, otherVars>>

\* console.log(`\nBenchmarking: ${name}`); console.log(`Iterations: ...`);
PrintHeaderTwice ==
  /\ pc = "printHeader"
  /\ console' = console \o headerLines(name, iterations)
                   \o headerLines(name, iterations)
  /\ trace' = Append(trace, "header")
  /\ pc' = "startTimer"
  /\ UNCHANGED <<name, iterations, fn, initialMemory, startTime, i, endTime,
                 finalMemory, rejection, clock, invocations, formatted,
                 bytes, result, operationVars, otherVars>>

PrintHeader ==
  /\ pc = "printHeader"
  /\ console' = console \o headerLines(name, iterations)
  /\ trace' = Append(trace, "header")
  /\ pc' = "startTimer"
  /\ UNCHANGED <<name, iterations, fn, initialMemory, startTime, i, endTime,
                 finalMemory, rejection, clock, invocations, formatted,
                 bytes, result, operationVars, otherVars>>

\* const startTime = process.hrtime.bigint(); let i = 0
StartTimer ==
  /\ pc = "startTimer"
  /\ startTime' = clock
  /\ i' = 0
  /\ trace' = Append(trace, "hrtime")
  /\ pc' = "loop"
  /\ UNCHANGED <<name, iterations, fn, initialMemory, endTime, finalMemory,
                 rejection, clock, invocations, console, formatted, bytes,
                 result, operationVars, otherVars>>

\* One turn of for (...; i < iterations; i++) { fn(); }.  The value fn()
\* returns is dropped: a promise is not awaited.  An error thrown by fn()
\* is not caught, and rejects the promise of the async measurePerformance.
Invoke ==
  /\ pc = "loop"
  /\ loopCondition(i, iterations)
  /\ \E dt \in Durations : clock' = clock + dt
  /\ trace' = Append(trace, "fn")
  /\ LET outcome == call(fn, Len(invocations) + 1)
         after == afterCall(outcome)
     IN /\ invocations' = Append(invocations, outcome)
        /\ pc' = after.pc
        /\ rejection' = after.rejection
        /\ i' = i + after.step
  /\ counter' = counter + 1
  /\ recorded' = Append(recorded, counter + 1)
  /\ UNCHANGED <<name, iterations, fn, initialMemory, startTime, endTime,
                 finalMemory, console, formatted, bytes, result, otherVars>>

\* The loop is left: const endTime = process.hrtime.bigint();
EndTimerInsideLoop ==
  /\ pc = "loop"
  /\ \E dt \in Durations :
       /\ clock' = clock + dt
       /\ endTime' = clock + dt
  /\ trace' = Append(trace, "hrtime")
  /\ pc' = "snapshotFinal"
  /\ UNCHANGED <<name, iterations, fn, initialMemory, startTime, i,
                 finalMemory, rejection, invocations, console, formatted,
                 bytes, result, operationVars, otherVars>>

EndTimer ==
  /\ pc = "loop"
  /\ ~loopCondition(i, iterations)
  /\ \E dt \in Durations :
       /\ clock' = clock + dt
       /\ endTime' = clock + dt
  /\ trace' = Append(trace, "hrtime")
  /\ pc' = "snapshotFinal"
  /\ UNCHANGED <<name, iterations, fn, initialMemory, startTime, i,
                 finalMemory, rejection, invocations, console, formatted,
                 bytes, result, operationVars, otherVars>>

\* const finalMemory = process.memoryUsage();
SnapshotFinal ==
  /\ pc = "snapshotFinal"
  /\ \E m \in MemoryUsages : finalMemory' = m
  /\ trace' = Append(trace, "memoryUsage")
  /\ pc' = "printResults"
  /\ UNCHANGED <<name, iterations, fn, initialMemory, startTime, i, endTime,
                 rejection, clock, invocations, console, formatted, bytes,
                 result, operationVars, otherVars>>

\* console.log("\nResults:") ... console.log("RSS:", ...), and the return:
\* the promise of measurePerformance is fulfilled.
PrintResults ==
  /\ pc = "printResults"
  /\ LET deltas == memoryDeltas(initialMemory, finalMemory) IN
       /\ formatted' = formatted \o deltas
       /\ console' = console
            \o resultLines(duration(startTime, endTime), iterations, deltas)
  /\ trace' = Append(trace, "results")
  /\ pc' = "resolved"
  /\ UNCHANGED <<name, iterations, fn, initialMemory, startTime, i, endTime,
                 finalMemory, rejection, clock, invocations, bytes, result, operationVars, otherVars>>

\* The event loop resumes a pending asynchronous operation after one of its
\* awaits.  JavaScript runs to completion: measurePerformance holds no
\* await, so nothing is resumed between its call and its return.
Resume ==
  /\ pc \in {"resolved", "rejected"}
  /\ \E k \in 1 .. Len(invocations) :
       /\ invocations[k].status = "pending"
       /\ invocations' =
            [invocations EXCEPT ![k] =
               IF @.awaitsLeft = 1
               THEN settled(fn, k)
               ELSE [@ EXCEPT !.awaitsLeft = @ - 1]]
  /\ UNCHANGED <<pc, name, iterations, fn, initialMemory, startTime, i,
                 endTime, finalMemory, rejection, clock, console, trace,
                 formatted, bytes, result, operationVars, otherVars>>

Next ==
  \/ Call
  \/ SnapshotInitial
  \/ PrintHeader
  \/ StartTimer
  \/ Invoke
  \/ EndTimer
  \/ SnapshotFinal
  \/ PrintResults
  \/ Resume

Spec == Init /\ [][Next]_vars

(***************************************************************************)
(* Several calls of measurePerformance: one after the other in one logical *)
(* flow, and in several flows whose calls overlap.  Every call has its own *)
(* activation: its parameters and its locals.  The class Benchmark has no  *)
(* field, so the activations share the run time's clock and nothing else.  *)
(* A flow's frame holds the activation of its current call; a later call   *)
(* of the flow finds in it whatever the statements of the earlier call     *)
(* left there, and only the statements of the code overwrite it.           *)
(*                                                                         *)
(* measurePerformance holds no await and JavaScript runs a function to its *)
(* end, so the window of one call overlaps the window of another only when *)
(* the second is called from inside an fn() of the first: the second call  *)
(* runs from its first statement to its return while the first stands in   *)
(* its loop.  depth is the place of a running call on the call stack.      *)
(***************************************************************************)
Flows == {"A", "B"}

\* the iteration counts and the operations the flows' calls are given
FlowIterationCounts == {1, MaxFlowIter}

FlowOperations == [kind : {"sync"}, awaits : {0}, throwAt : {0, 1}]

\* what process.memoryUsage() may return to a flow's call
FlowMemoryUsages ==
  { [heapUsed |-> 4000000, heapTotal |-> 6000000, rss |-> 30000000],
    [heapUsed |-> 4001536, heapTotal |-> 7048576, rss |-> 29997952] }

\* the nanoseconds that may pass during one invocation of fn
FlowDurations == {7000}

\* A frame before the flow's first call.  calls, snapshots, deltas and
\* report observe the current call: the invocations of fn it made, what
\* process.memoryUsage() returned to it, what it handed to formatBytes and
\* the lines it wrote; runs and aborted count the flow's calls so far and
\* those of them that were left by an error.
IdleFrame ==
  [pc |-> "idle", name |-> None, iterations |-> 0, fn |-> Undefined,
   initialMemory |-> Undefined, startTime |-> NotCaptured, i |-> 0,
   endTime |-> NotCaptured, finalMemory |-> Undefined, rejection |-> None,
   calls |-> 0, snapshots |-> <<>>, deltas |-> <<>>, report |-> <<>>,
   runs |-> 0, aborted |-> 0, depth |-> 0]

\* const x = ...: the local of the call of flow f is given its value
storeLocalShared(fs, f, local, value) ==
  [g \in DOMAIN fs |-> [fs[g] EXCEPT ![local] = value]]

storeLocal(fs, f, local, value) == [fs EXCEPT ![f][local] = value]

\* let i = 0: the loop variable at the start of the loop, whatever an
\* earlier call left in it
loopStartStale(previous) == previous

loopStart(previous) == 0

RECURSIVE SumRuns(_, _)
SumRuns(fs, S) ==
  IF S = {} THEN 0
  ELSE LET f == CHOOSE x \in S : TRUE
       IN fs[f].runs + SumRuns(fs, S \ {f})

\* the calls of measurePerformance made so far
TotalRuns == SumRuns(frames, Flows)

\* the flows whose call has not returned
Running == {f \in Flows : frames[f].pc \notin {"idle", "resolved", "rejected"}}

\* the call on top of the call stack: the one whose statements run
OnTop(f) ==
  /\ f \in Running
  /\ \A g \in Running : frames[g].depth <= frames[f].depth

\* a call is made from the top level, or from inside an fn() of the call
\* on top of the stack
Callable(f) ==
  /\ f \notin Running
  /\ \A g \in Running :
       OnTop(g) =>
         /\ frames[g].pc = "loop"
         /\ loopCondition(frames[g].i, frames[g].iterations)

FlowInit ==
  /\ pc = "idle"
  /\ name = None
  /\ iterations = 0
  /\ fn = Undefined
  /\ initialMemory = Undefined
  /\ startTime = NotCaptured
  /\ i = 0
  /\ endTime = NotCaptured
  /\ finalMemory = Undefined
  /\ rejection = None
  /\ clock = 0
  /\ invocations = <<>>
  /\ console = <<>>
  /\ trace = <<>>
  /\ formatted = <<>>
  /\ bytes = 0
  /\ result = Undefined
  /\ OperationInit
  /\ frames = [f \in Flows |-> IdleFrame]
  /\ LimitersIdle
  /\ DemosIdle

\* what a step of a flow leaves alone, the clock excepted
flowFrame == <<pc, name, iterations, fn, initialMemory, startTime, i,
               endTime, finalMemory, rejection, invocations, console, trace,
               formatted, bytes, result, operationVars, limiterVars,
               demoVars>>

\* Flow f calls Benchmark.measurePerformance(name, iterations, fn): its
\* first call, or a later one after its earlier call resolved or rejected.
\* The call returns a new promise.
FlowCall(f) ==
  /\ Callable(f)
  /\ TotalRuns < MaxCalls
  /\ \E count \in FlowIterationCounts, op \in FlowOperations :
       frames' = [frames EXCEPT ![f] =
                    [@ EXCEPT !.pc = "snapshotInitial",
                              !.name = f,
                              !.iterations = count,
                              !.fn = op,
                              !.rejection = None,
                              !.calls = 0,
                              !.snapshots = <<>>,
                              !.deltas = <<>>,
                              !.report = <<>>,
                              !.runs = @ + 1,
                              !.depth = Cardinality(Running) + 1,
                              !.aborted = IF frames[f].pc = "rejected"
                                          THEN @ + 1 ELSE @]]
  /\ UNCHANGED <<flowFrame, clock>>

\* const initialMemory = process.memoryUsage();
FlowSnapshotInitial(f) ==
  /\ OnTop(f)
  /\ frames[f].pc = "snapshotInitial"
  /\ \E m \in FlowMemoryUsages :
       frames' = [storeLocal(frames, f, "initialMemory", m)
                    EXCEPT ![f].pc = "printHeader",
                           ![f].snapshots = Append(@, m)]
  /\ UNCHANGED <<flowFrame, clock>>

\* console.log(`\nBenchmarking: ${name}`); console.log(`Iterations: ...`);
FlowPrintHeader(f) ==
  /\ OnTop(f)
  /\ frames[f].pc = "printHeader"
  /\ frames' = [frames EXCEPT
                  ![f].pc = "startTimer",
                  ![f].report =
                     @ \o headerLines(frames[f].name, frames[f].iterations)]
  /\ UNCHANGED <<flowFrame, clock>>

\* const startTime = process.hrtime.bigint(); let i = 0
FlowStartTimer(f) ==
  /\ OnTop(f)
  /\ frames[f].pc = "startTimer"
  /\ frames' = [storeLocal(storeLocal(frames, f, "startTime", clock),
                           f, "i", loopStart(frames[f].i))
                  EXCEPT ![f].pc = "loop"]
  /\ UNCHANGED <<flowFrame, clock>>

\* one turn of for (...; i < iterations; i++) { fn(); }
FlowInvoke(f) ==
  /\ OnTop(f)
  /\ frames[f].pc = "loop"
  /\ loopCondition(frames[f].i, frames[f].iterations)
  /\ \E dt \in FlowDurations : clock' = clock + dt
  /\ LET outcome == call(frames[f].fn, frames[f].calls + 1)
         after == afterCall(outcome)
     IN frames' = [storeLocal(frames, f, "i", frames[f].i + after.step)
                     EXCEPT ![f].pc = after.pc,
                            ![f].rejection = after.rejection,
                            ![f].calls = @ + 1]
  /\ UNCHANGED flowFrame

\* the loop is left: const endTime = process.hrtime.bigint();
FlowEndTimer(f) ==
  /\ OnTop(f)
  /\ frames[f].pc = "loop"
  /\ ~loopCondition(frames[f].i, frames[f].iterations)
  /\ \E dt \in FlowDurations :
       /\ clock' = clock + dt
       /\ frames' = [storeLocal(frames, f, "endTime", clock + dt)
                       EXCEPT ![f].pc = "snapshotFinal"]
  /\ UNCHANGED flowFrame

\* const finalMemory = process.memoryUsage();
FlowSnapshotFinal(f) ==
  /\ OnTop(f)
  /\ frames[f].pc = "snapshotFinal"
  /\ \E m \in FlowMemoryUsages :
       frames' = [storeLocal(frames, f, "finalMemory", m)
                    EXCEPT ![f].pc = "printResults",
                           ![f].snapshots = Append(@, m)]
  /\ UNCHANGED <<flowFrame, clock>>

\* console.log("\nResults:") ... console.log("RSS:", ...), and the return
FlowPrintResults(f) ==
  /\ OnTop(f)
  /\ frames[f].pc = "printResults"
  /\ LET fr == frames[f]
         deltas == memoryDeltas(fr.initialMemory, fr.finalMemory)
     IN frames' = [frames EXCEPT
                     ![f].pc = "resolved",
                     ![f].deltas = @ \o deltas,
                     ![f].report =
                        @ \o resultLines(duration(fr.startTime, fr.endTime),
                                         fr.iterations, deltas)]
  /\ UNCHANGED <<flowFrame, clock>>

FlowNext ==
  \E f \in Flows :
    \/ FlowCall(f)
    \/ FlowSnapshotInitial(f)
    \/ FlowPrintHeader(f)
    \/ FlowStartTimer(f)
    \/ FlowInvoke(f)
    \/ FlowEndTimer(f)
    \/ FlowSnapshotFinal(f)
    \/ FlowPrintResults(f)

FlowSpec == FlowInit /\ [][FlowNext]_vars

(***************************************************************************)
(* The rate limiters.  Each keeps a Map from user id to request count and  *)
(* answers 429 (UserAccessManager: "Rate limit exceeded") once the count   *)
(* has reached its limit.  RateLimitHandler and TraditionalRequestProcessor*)
(* of chain-of-responsibility-benchmark.ts also schedule, for every        *)
(* request they admit, a callback that after windowMs stores the count     *)
(* the user had before that request.  All callbacks are scheduled with the *)
(* same delay, so the run time keeps them in one list and runs them in the *)
(* order they were scheduled, no sooner than their time and maybe later.   *)
(* Time is counted in moments half a window apart; the requests of one     *)
(* moment arrive within the same millisecond, so their timers expire       *)
(* together, and requests are handled before or after them.                *)
(* The limiters are given the same requests, one request at a time; the    *)
(* requests are those that reach the rate limit check.                     *)
(***************************************************************************)
Users == {1, 2}

TimerLimiters == {"RateLimitHandler.timer", "TraditionalRequestProcessor.timer"}

Limiters ==
  TimerLimiters
    \cup {"RateLimitHandler", "TraditionalRequestProcessor",
          "UserAccessManager"}

\* the limit a limiter compares with
limitOf(limiter) ==
  CASE limiter \in {"RateLimitHandler.timer", "RateLimitHandler"} -> limit
    [] limiter \in {"TraditionalRequestProcessor.timer",
                    "TraditionalRequestProcessor"} -> rateLimit
    [] limiter = "UserAccessManager" -> requestLimit

\* the delay a limiter schedules its callback with
windowOf(limiter) ==
  CASE limiter = "RateLimitHandler.timer" -> windowMs
    [] limiter = "TraditionalRequestProcessor.timer" -> rateLimitWindowMs

\* this.requests.get(userId) || 0
get(map, userId) == IF userId \in DOMAIN map THEN map[userId] ELSE 0

\* this.requests.set(userId, value)
set(map, userId, value) ==
  IF userId \in DOMAIN map
  THEN [map EXCEPT ![userId] = value]
  ELSE (userId :> value) @@ map

\* if (userRequests >= this.limit): the request is answered 429
limitReachedLate(userRequests, lim) == userRequests > lim

limitReached(userRequests, lim) == userRequests >= lim

\* what the callback of setTimeout stores: the count before the request
restoredCount(userRequests) == userRequests

\* the time between two moments at which requests arrive
TickMs == windowMs \div 2

Moments == 0 .. MaxTicks

\* the number of the moment now
moment == now \div TickMs

\* the size of a burst of requests
BurstSizes == {0, 1, limit}

RECURSIVE PlannedFrom(_, _)
PlannedFrom(p, k) ==
  IF k > MaxTicks THEN 0 ELSE p[k].size + PlannedFrom(p, k + 1)

\* the plans of arrival: at most a full window of requests and MaxExtra more
Plans ==
  {p \in [Moments -> [user : Users, size : BurstSizes]] :
     /\ PlannedFrom(p, 0) <= limit + MaxExtra
     /\ \A k \in Moments : p[k].size = 0 => p[k].user = 1}

TimerInit ==
  /\ pc = "idle"
  /\ name = None
  /\ iterations = 0
  /\ fn = Undefined
  /\ initialMemory = Undefined
  /\ startTime = NotCaptured
  /\ i = 0
  /\ endTime = NotCaptured
  /\ finalMemory = Undefined
  /\ rejection = None
  /\ clock = 0
  /\ invocations = <<>>
  /\ console = <<>>
  /\ trace = <<>>
  /\ formatted = <<>>
  /\ bytes = 0
  /\ result = Undefined
  /\ OperationInit
  /\ frames = <<>>
  /\ counts = [l \in Limiters |-> <<>>]
  /\ timers = <<>>
  /\ now = 0
  /\ plan \in Plans
  /\ sent = 0
  /\ passedAt = [u \in Users |-> [k \in Moments |-> 0]]
  /\ verdict = [l \in Limiters |-> None]
  /\ responses = <<>>
  /\ DemosIdle

\* what a limiter does with a request of userId: the count it stores and
\* whether the request goes on to the next check
admit(limiter, map, userId) ==
  LET userRequests == get(map, userId) IN
    IF limitReached(userRequests, limitOf(limiter))
    THEN [verdict |-> "rejected", map |-> map, userRequests |-> userRequests]
    ELSE [verdict |-> "passed",
          map |-> set(map, userId, userRequests + 1),
          userRequests |-> userRequests]

\* setTimeout(() => this.requests.set(userId, userRequests), windowMs) of
\* the limiters that admitted the request
scheduled(userId, outcomes) ==
  SelectSeq(
    << [owner |-> "RateLimitHandler.timer", userId |-> userId,
        userRequests |-> outcomes["RateLimitHandler.timer"].userRequests,
        due |-> now + windowOf("RateLimitHandler.timer")],
       [owner |-> "TraditionalRequestProcessor.timer", userId |-> userId,
        userRequests |->
          outcomes["TraditionalRequestProcessor.timer"].userRequests,
        due |-> now + windowOf("TraditionalRequestProcessor.timer")] >>,
    LAMBDA t : outcomes[t.owner].verdict = "passed")

\* One request of the planned burst reaches the rate limit check of every
\* limiter.
LimiterRequest ==
  /\ plan # <<>>
  /\ sent < plan[moment].size
  /\ LET userId == plan[moment].user
         outcomes == [l \in Limiters |-> admit(l, counts[l], userId)]
     IN /\ counts' = [l \in Limiters |-> outcomes[l].map]
        /\ verdict' = [l \in Limiters |-> outcomes[l].verdict]
        /\ timers' = timers \o scheduled(userId, outcomes)
        /\ passedAt' =
             IF outcomes["RateLimitHandler.timer"].verdict = "passed"
             THEN [passedAt EXCEPT ![userId][moment] = @ + 1]
             ELSE passedAt
  /\ sent' = sent + 1
  /\ UNCHANGED <<now, plan, responses, bytes, result, harnessVars,
                 operationVars, frames, demoVars>>

\* the callback of a timer: this.requests.set(userId, userRequests)
callback(maps, t) ==
  [maps EXCEPT ![t.owner] = set(@, t.userId, restoredCount(t.userRequests))]

\* The callbacks of a list of timers, run one after the other: those of
\* the first half of the list, then, on the Maps these leave, those of the
\* second half.  A callback stores a count in a Map that exists.
RECURSIVE runCallbacks(_, _)
runCallbacks(maps, ts) ==
  IF ts = <<>> THEN maps
  ELSE IF Len(ts) = 1 THEN callback(maps, ts[1])
  ELSE LET half == Len(ts) \div 2
           first == runCallbacks(maps, SubSeq(ts, 1, half))
       IN IF DOMAIN first = DOMAIN maps
          THEN runCallbacks(first, SubSeq(ts, half + 1, Len(ts)))
          ELSE first

\* the timers that expire together with the first in line
expired == SelectSeq(timers, LAMBDA t : t.due = Head(timers).due)

\* The timers that are first in line expire, at their time or later: the
\* run time runs the callbacks of all timers of the list that expire at
\* that time, in the order they were scheduled, and no request is handled
\* between two of them.
TimersFire ==
  /\ timers # <<>>
  /\ Head(timers).due <= now
  /\ counts' = runCallbacks(counts, expired)
  /\ timers' = SubSeq(timers, Len(expired) + 1, Len(timers))
  /\ UNCHANGED <<now, plan, sent, passedAt, verdict, responses, bytes,
                 result, harnessVars, operationVars, frames, demoVars>>

\* Time passes, after the burst of this moment.  The event loop is not
\* held up for half a window: the callbacks whose time has come have run.
Tick ==
  /\ plan # <<>>
  /\ sent = plan[moment].size
  /\ moment < MaxTicks
  /\ timers # <<>> => Head(timers).due > now
  /\ now' = now + TickMs
  /\ sent' = 0
  /\ UNCHANGED <<counts, timers, plan, passedAt, verdict, responses, bytes,
                 result, harnessVars, operationVars, frames, demoVars>>

TimerNext ==
  \/ LimiterRequest
  \/ TimersFire
  \/ Tick

TimerSpec == TimerInit /\ [][TimerNext]_vars

(***************************************************************************)
(* The handler chain of chain-benchmark.ts, as main links it, and          *)
(* TraditionalRequestProcessor, given the same requests.                   *)
(***************************************************************************)
Implementations == {"RateLimitHandler", "TraditionalRequestProcessor"}

\* the handler main calls: authHandler.handle(...)
firstHandler == "AuthenticationHandler"

Handlers ==
  {"AuthenticationHandler", "RateLimitHandler", "AuthorizationHandler",
   "ValidationHandler"}

\* RequestHandler.setNext: this.nextHandler = handler
setNext(links, handler, next) == [links EXCEPT ![handler] = next]

\* private nextHandler: RequestHandler | null = null, then the calls of
\* setNext in main
nextHandlerRateLimitFirst ==
  setNext(setNext(setNext([h \in Handlers |-> None],
                          "RateLimitHandler", "AuthenticationHandler"),
                  "AuthenticationHandler", "AuthorizationHandler"),
          "AuthorizationHandler", "ValidationHandler")

nextHandlerAuthorizationFirst ==
  setNext(setNext(setNext([h \in Handlers |-> None],
                          "AuthenticationHandler", "AuthorizationHandler"),
                  "AuthorizationHandler", "RateLimitHandler"),
          "RateLimitHandler", "ValidationHandler")

nextHandler ==
  setNext(setNext(setNext([h \in Handlers |-> None],
                          "AuthenticationHandler", "RateLimitHandler"),
                  "RateLimitHandler", "AuthorizationHandler"),
          "AuthorizationHandler", "ValidationHandler")

\* private readonly adminPaths = ["/admin", "/settings"]
adminPaths == <<"/admin", "/settings">>

\* String.prototype.startsWith
startsWith(str, prefix) ==
  /\ Len(str) >= Len(prefix)
  /\ SubSeq(str, 1, Len(prefix)) = prefix

\* this.adminPaths.some((path) => request.path.startsWith(path))
isAdminPath(path) ==
  \E k \in 1 .. Len(adminPaths) : startsWith(path, adminPaths[k])

\* !value for a header: undefined or the empty string
headerMissing(value) == value = None \/ value = ""

\* a value of request.body: what typeof gives, and whether it is truthy
Bodies ==
  { [type |-> "undefined", truthy |-> FALSE],
    [type |-> "string", truthy |-> TRUE],
    [type |-> "object", truthy |-> TRUE],
    [type |-> "object", truthy |-> FALSE] }

\* the requests the implementations are given
Requests ==
  [user : {[id |-> 1, role |-> "user"], [id |-> 2, role |-> "admin"]},
   path : {"/api/data", "/admin/settings"},
   method : {"GET", "POST"},
   body : Bodies,
   authorization : {None, "Bearer token123"}]

\* { status, headers: {}, body }
Response(status, body) == [status |-> status, headers |-> <<>>, body |-> body]

\* the answer of ValidationHandler, and of the last check of processRequest,
\* to a request it does not let pass; Undefined for one it does
validationError(request) ==
  IF request.method = "POST" \/ request.method = "PUT"
  THEN IF ~request.body.truthy
       THEN Response(400, "Bad Request: Body is required")
       ELSE IF request.body.type # "object"
            THEN Response(400, "Bad Request: Invalid body format")
            ELSE Undefined
  ELSE Undefined

\* Handler h handles the request: what it answers, and the Map of
\* RateLimitHandler afterwards.
RECURSIVE handle(_, _, _)

\* RequestHandler.handleNext
handleNext(h, request, requests) ==
  IF nextHandler[h] # None
  THEN handle(nextHandler[h], request, requests)
  ELSE [response |-> Response(200, "OK"), requests |-> requests]

handle(h, request, requests) ==
  CASE h = "AuthenticationHandler" ->
         IF headerMissing(request.authorization)
         THEN [response |-> Response(401, "Unauthorized"),
               requests |-> requests]
         ELSE handleNext(h, request, requests)
    [] h = "RateLimitHandler" ->
         LET outcome == admit(h, requests, request.user.id) IN
           IF outcome.verdict = "rejected"
           THEN [response |-> Response(429, "Too Many Requests"),
                 requests |-> requests]
           ELSE handleNext(h, request, outcome.map)
    [] h = "AuthorizationHandler" ->
         IF isAdminPath(request.path) /\ request.user.role # "admin"
         THEN [response |-> Response(403, "Forbidden"),
               requests |-> requests]
         ELSE handleNext(h, request, requests)
    [] h = "ValidationHandler" ->
         IF validationError(request) # Undefined
         THEN [response |-> validationError(request), requests |-> requests]
         ELSE handleNext(h, request, requests)

\* TraditionalRequestProcessor.processRequest: what it answers, and its Map
\* afterwards
processRequest(request, requests) ==
  IF headerMissing(request.authorization)
  THEN [response |-> Response(401, "Unauthorized"), requests |-> requests]
  ELSE
    LET outcome == admit("TraditionalRequestProcessor", requests,
                         request.user.id)
    IN IF outcome.verdict = "rejected"
       THEN [response |-> Response(429, "Too Many Requests"),
             requests |-> requests]
       ELSE IF isAdminPath(request.path) /\ request.user.role # "admin"
       THEN [response |-> Response(403, "Forbidden"),
             requests |-> outcome.map]
       ELSE IF validationError(request) # Undefined
       THEN [response |-> validationError(request),
             requests |-> outcome.map]
       ELSE [response |-> Response(200, "OK"), requests |-> outcome.map]

HandlerInit ==
  /\ pc = "idle"
  /\ name = None
  /\ iterations = 0
  /\ fn = Undefined
  /\ initialMemory = Undefined
  /\ startTime = NotCaptured
  /\ i = 0
  /\ endTime = NotCaptured
  /\ finalMemory = Undefined
  /\ rejection = None
  /\ clock = 0
  /\ invocations = <<>>
  /\ console = <<>>
  /\ trace = <<>>
  /\ formatted = <<>>
  /\ bytes = 0
  /\ result = Undefined
  /\ OperationInit
  /\ frames = <<>>
  /\ counts = [l \in Implementations |-> <<>>]
  /\ timers = <<>>
  /\ now = 0
  /\ plan = <<>>
  /\ sent = 0
  /\ passedAt = <<>>
  /\ verdict = <<>>
  /\ responses = [l \in Implementations |-> Undefined]
  /\ DemosIdle

\* authHandler.handle(request) and traditionalProcessor.processRequest(
\* request), with the same request
Submit ==
  /\ \E request \in Requests :
       LET chain == handle(firstHandler, request, counts["RateLimitHandler"])
           traditional ==
             processRequest(request, counts["TraditionalRequestProcessor"])
       IN /\ counts' = [counts EXCEPT
                          !["RateLimitHandler"] = chain.requests,
                          !["TraditionalRequestProcessor"] =
                             traditional.requests]
          /\ responses' = [responses EXCEPT
                             !["RateLimitHandler"] = chain.response,
                             !["TraditionalRequestProcessor"] =
                                traditional.response]
  /\ UNCHANGED <<timers, now, plan, sent, passedAt, verdict, bytes, result,
                 harnessVars, operationVars, frames, demoVars>>

HandlerNext == Submit

HandlerSpec == HandlerInit /\ [][HandlerNext]_vars

(***************************************************************************)
(* formatBytes alone, on byte counts around every unit threshold.          *)
(***************************************************************************)
ByteSamples ==
  (0 .. SmallBytes)
    \cup {1535, 1536, 1537, 2047, 2048, 10240}
    \cup {Pow(Kilo, 2) - 1, Pow(Kilo, 2), Pow(Kilo, 2) + 1,
          Pow(Kilo, 2) + Pow(Kilo, 2) \div 2}
    \cup {Pow(Kilo, 3) - 1, Pow(Kilo, 3), Pow(Kilo, 3) + 1,
          Pow(Kilo, 3) + Pow(Kilo, 3) \div 2, 2147483647}
    \cup {0 - 1, 0 - 1024, 0 - 2048, 0 - Pow(Kilo, 2)}

FormatInit ==
  /\ pc = "idle"
  /\ name = None
  /\ iterations = 0
  /\ fn = Undefined
  /\ initialMemory = Undefined
  /\ startTime = NotCaptured
  /\ i = 0
  /\ endTime = NotCaptured
  /\ finalMemory = Undefined
  /\ rejection = None
  /\ clock = 0
  /\ invocations = <<>>
  /\ console = <<>>
  /\ trace = <<>>
  /\ formatted = <<>>
  /\ bytes \in ByteSamples
  /\ result = Undefined
  /\ OperationInit
  /\ OthersIdle

\* Benchmark.formatBytes(bytes) is called and returns
Format ==
  /\ result = Undefined
  /\ result' = [text |-> formatBytes(bytes),
                unitIndex |-> formatBytesUnitIndex(bytes)]
  /\ UNCHANGED <<bytes, harnessVars, operationVars, otherVars>>

FormatNext == Format

FormatSpec == FormatInit /\ [][FormatNext]_vars

(***************************************************************************)
(* formatBytes alone, on byte counts up to 1024^5.                         *)
(***************************************************************************)
WideByteSamples ==
  [hi : (0 .. MaxGiga) \cup {Kilo - 1, Kilo, Kilo + 1, 5 * Kilo,
                             Pow(Kilo, 2)},
   lo : {0, 1, Kilo - 1, Kilo, Pow(Kilo, 2) - 1, Pow(Kilo, 2),
         Giga \div 2, Giga - 1}]

WideFormatInit ==
  /\ pc = "idle"
  /\ name = None
  /\ iterations = 0
  /\ fn = Undefined
  /\ initialMemory = Undefined
  /\ startTime = NotCaptured
  /\ i = 0
  /\ endTime = NotCaptured
  /\ finalMemory = Undefined
  /\ rejection = None
  /\ clock = 0
  /\ invocations = <<>>
  /\ console = <<>>
  /\ trace = <<>>
  /\ formatted = <<>>
  /\ bytes \in WideByteSamples
  /\ result = Undefined
  /\ OperationInit
  /\ OthersIdle

\* Benchmark.formatBytes(bytes) is called and returns
WideFormat ==
  /\ result = Undefined
  /\ result' = formatBytesWide(bytes)
  /\ UNCHANGED <<bytes, harnessVars, operationVars, otherVars>>

WideFormatNext == WideFormat

WideFormatSpec == WideFormatInit /\ [][WideFormatNext]_vars

(***************************************************************************)
(* The properties of the harness.                                          *)
(***************************************************************************)
\* the invocations of fn whose promise is still pending
InFlight == {k \in 1 .. Len(invocations) : invocations[k].status = "pending"}

\* the iterations a loop over count runs
Turns(count) == IF count < 0 THEN 0 ELSE count

RECURSIVE Repeat(_, _)
Repeat(e, n) == IF n <= 0 THEN <<>> ELSE <<e>> \o Repeat(e, n - 1)

IsPrefix(s, t) == Len(s) <= Len(t) /\ SubSeq(t, 1, Len(s)) = s

\* C1: for every N >= 1 and every operation that never throws, one call
\* measurePerformance(name, N, fn) invokes fn exactly N times: one
\* invocation per turn of the loop, never more than N, and N when the call
\* has completed, which it does without an error.
C1_InvokedExactlyN ==
  (iterations >= 1 /\ fn # Undefined /\ fn.throwAt = 0) =>
    /\ Len(invocations) <= iterations
    /\ pc = "loop" => Len(invocations) = i
    /\ pc \in {"snapshotFinal", "printResults", "resolved"}
         => Len(invocations) = iterations
    /\ pc # "rejected"

C1_Witness ==
  /\ pc = "resolved"
  /\ iterations = 5
  /\ fn.throwAt = 0
  /\ Len(invocations) = 5

\* C2: when the operation is asynchronous, at most one invocation of it is
\* in flight in every reachable state: iteration i+1 never starts before
\* iteration i has finished.
C2_AtMostOneInFlight ==
  (fn # Undefined /\ fn.kind = "async") => Cardinality(InFlight) <= 1

\* C3: if a synchronous operation throws on its k-th invocation
\* (1 <= k <= N), the promise of measurePerformance rejects with that same
\* error and the operation has been invoked exactly k times: the k-th
\* invocation ends the run, no later one happens and nothing is reported.
C3_SyncThrowPropagates ==
  (fn # Undefined /\ fn.kind = "sync" /\ fn.throwAt >= 1
     /\ fn.throwAt <= iterations) =>
    /\ Len(invocations) <= fn.throwAt
    /\ Len(invocations) = fn.throwAt
         => /\ pc = "rejected"
            /\ invocations[fn.throwAt].status = "threw"
    /\ pc = "rejected"
         => /\ rejection = OperationError
            /\ Len(invocations) = fn.throwAt
    /\ pc # "resolved"
    /\ endTime = NotCaptured

C3_Witness ==
  /\ pc = "rejected"
  /\ fn.kind = "sync"
  /\ iterations = 5
  /\ fn.throwAt = 3
  /\ Len(invocations) = 3
  /\ rejection = OperationError

\* C4: if an asynchronous operation rejects during iteration k, the
\* promise of measurePerformance rejects with that error and iterations
\* k+1..N are aborted: no invocation follows the rejected one and the call
\* does not complete normally.
C4_AsyncRejectionPropagates ==
  \A k \in 1 .. Len(invocations) :
    invocations[k].status = "rejected" =>
      /\ Len(invocations) = k
      /\ pc # "resolved"
      /\ pc = "rejected" => rejection = OperationError

\* C5: a call with an iteration count <= 0 fails before the operation is
\* invoked and before any timing begins; it never completes with a report
\* of a mean duration.
C5_InvalidCountFailsFast ==
  (pc # "idle" /\ iterations <= 0) =>
    /\ startTime = NotCaptured
    /\ Len(invocations) = 0
    /\ pc # "resolved"

\* C6: a measurement does not finish before its operations do: once the
\* end timestamp is captured, all N invocations of the operation,
\* synchronous or asynchronous, have been made and have completed.
C6_EndsAfterOperations ==
  endTime # NotCaptured =>
    /\ Len(invocations) = Turns(iterations)
    /\ InFlight = {}

\* C7 as claimed: the steps of a run with N >= 1 happen in the order
\* first memory snapshot, start timestamp, the N invocations, end
\* timestamp, second memory snapshot, report (header and results).
C7_ReportAfterEverything ==
  iterations >= 1 =>
    IsPrefix(trace,
             <<"memoryUsage", "hrtime">> \o Repeat("fn", iterations)
               \o <<"hrtime", "memoryUsage", "header", "results">>)

\* C7, amended: the steps of a run happen in the order first memory
\* snapshot, header of the report (label and iteration count), start
\* timestamp, the invocations of the operation, end timestamp, second
\* memory snapshot, rest of the report (durations and memory deltas); no
\* invocation happens before the first memory snapshot and the start
\* timestamp or after the end timestamp.
C7_StepOrder ==
  /\ IsPrefix(trace,
              <<"memoryUsage", "header", "hrtime">>
                \o Repeat("fn", iterations)
                \o <<"hrtime", "memoryUsage", "results">>)
  /\ Len(invocations) > 0
       => initialMemory # Undefined /\ startTime # NotCaptured
  /\ endTime # NotCaptured
       => Len(SelectSeq(trace, LAMBDA e : e = "fn")) = Len(invocations)
  /\ Len(console) > Len(headerLines(name, iterations))
       => finalMemory # Undefined /\ endTime # NotCaptured

C7_Witness ==
  /\ pc = "resolved"
  /\ iterations = 2
  /\ trace = <<"memoryUsage", "header", "hrtime", "fn", "fn", "hrtime",
               "memoryUsage", "results">>

\* C8: for every N >= 1 the mean duration reported is the total duration
\* reported, end timestamp minus start timestamp in milliseconds, divided
\* by N (each printed with two decimals).
C8_MeanIsTotalOverN ==
  (pc = "resolved" /\ iterations >= 1) =>
    /\ console[4]
         = "Total Time: " \o toFixed(endTime - startTime, NsPerMs) \o "ms"
    /\ console[5]
         = "Average Time per Operation: "
             \o toFixed(endTime - startTime, NsPerMs * iterations) \o "ms"

C8_Witness ==
  /\ pc = "resolved"
  /\ iterations = 3
  /\ endTime - startTime = 4500000
  /\ console[4] = "Total Time: 4.50ms"
  /\ console[5] = "Average Time per Operation: 1.50ms"

\* C9: for each of the three memory counters the value handed to the byte
\* formatter is snapshot-after minus snapshot-before of that same counter,
\* signed and unscaled, and the report prints the three in the order heap
\* used, heap total, RSS.
C9_DeltasAreAfterMinusBefore ==
  pc = "resolved" =>
    /\ formatted = << finalMemory.heapUsed - initialMemory.heapUsed,
                      finalMemory.heapTotal - initialMemory.heapTotal,
                      finalMemory.rss - initialMemory.rss >>
    /\ console[7] = "Heap Used: " \o formatBytes(formatted[1])
    /\ console[8] = "Heap Total: " \o formatBytes(formatted[2])
    /\ console[9] = "RSS: " \o formatBytes(formatted[3])

C9_Witness ==
  /\ pc = "resolved"
  /\ formatted = <<1536, 1048576, 0 - 2048>>
  /\ console[7] = "Heap Used: 1.50 KB"
  /\ console[8] = "Heap Total: 1.00 MB"

\* C10: for every non-negative byte count formatBytes stops at the first
\* unit whose scaled value is below 1024: the unit index u it chooses is 0
\* for b < 1024 and otherwise satisfies 1024^u <= b < 1024^(u+1), the text
\* is b / 1024^u with two decimals and the unit's name, and 0, 1024, 1536
\* and 1048576 give "0.00 B", "1.00 KB", "1.50 KB" and "1.00 MB".
C10_UnitSelection ==
  (result # Undefined /\ bytes >= 0) =>
    LET u == result.unitIndex IN
    /\ u \in 0 .. Len(units) - 1
    /\ bytes < Kilo => u = 0
    /\ u >= 1 => Pow(Kilo, u) <= bytes
    /\ bytes \div Pow(Kilo, u) < Kilo
    /\ result.text = toFixed(bytes, Pow(Kilo, u)) \o " " \o units[u + 1]
    /\ bytes = 0 => result.text = "0.00 B"
    /\ bytes = 1024 => result.text = "1.00 KB"
    /\ bytes = 1536 => result.text = "1.50 KB"
    /\ bytes = 1048576 => result.text = "1.00 MB"

C10_Witness ==
  /\ result # Undefined
  /\ bytes = 1536
  /\ result.unitIndex = 1
  /\ result.text = "1.50 KB"

\* C11: formatBytes never divides more than three times and never indexes
\* past the last unit: every input >= 1024^3, however large, is rendered
\* in GB, as input / 1024^3 with two decimals, a value that may itself
\* exceed 1024.
C11_CapsAtGB ==
  result # Undefined =>
    /\ result.unitIndex \in 0 .. Len(units) - 1
    /\ result.den = Pow(Kilo, result.unitIndex)
    /\ bytes.hi >= 1 =>
         /\ result.unitIndex = Len(units) - 1
         /\ result.den = Giga
         /\ result.text = toFixedWide(bytes, Giga) \o " GB"
    /\ (bytes.hi = Kilo /\ bytes.lo = 0) => result.text = "1024.00 GB"
    /\ (bytes.hi = 1 /\ bytes.lo = 0) => result.text = "1.00 GB"
    /\ bytes.hi = 0 => result.text = formatBytes(bytes.lo)

C11_Witness ==
  /\ result # Undefined
  /\ bytes = [hi |-> 5 * Kilo, lo |-> Giga \div 2]
  /\ result.unitIndex = 3
  /\ result.text = "5120.50 GB"

\* C12: for a negative byte count formatBytes applies the unit scaling to
\* the magnitude and keeps the sign: formatBytes(-b) has the unit of
\* formatBytes(b) and the negated scaled value (-2048 gives "-2.00 KB").
C12_NegativeScaledLikeMagnitude ==
  (result # Undefined /\ bytes < 0) =>
    /\ result.unitIndex = formatBytesUnitIndex(0 - bytes)
    /\ result.text = "-" \o formatBytes(0 - bytes)

\* C14: every run that completes emits exactly one report, once: the run
\* label, the iteration count, the total duration, the mean duration and
\* the three memory deltas (heap used, heap total, RSS), in this order and
\* none of them twice.  A run that has not completed has emitted at most
\* the label and the iteration count.
C14_OneReportPerRun ==
  /\ pc = "resolved" =>
       /\ Len(console) = 9
       /\ console[1] = "Benchmarking: " \o name
       /\ console[2] = "Iterations: " \o ToString(iterations)
       /\ console[3] = "Results:"
       /\ console[4]
            = "Total Time: " \o toFixed(endTime - startTime, NsPerMs) \o "ms"
       /\ console[5]
            = "Average Time per Operation: "
                \o toFixed(endTime - startTime, NsPerMs * iterations) \o "ms"
       /\ console[6] = "Memory Usage:"
       /\ console[7]
            = "Heap Used: "
                \o formatBytes(finalMemory.heapUsed - initialMemory.heapUsed)
       /\ console[8]
            = "Heap Total: "
                \o formatBytes(finalMemory.heapTotal
                                 - initialMemory.heapTotal)
       /\ console[9]
            = "RSS: " \o formatBytes(finalMemory.rss - initialMemory.rss)
       /\ Len(SelectSeq(trace, LAMBDA e : e = "header")) = 1
       /\ Len(SelectSeq(trace, LAMBDA e : e = "results")) = 1
  /\ pc # "resolved" =>
       /\ Len(console) <= 2
       /\ Len(SelectSeq(trace, LAMBDA e : e = "results")) = 0

C14_Witness ==
  /\ pc = "resolved"
  /\ iterations = 2
  /\ InFlight = {}
  /\ fn.kind = "async"
  /\ fn.awaits = 1
  /\ console = << "Benchmarking: x", "Iterations: 2", "Results:",
                  "Total Time: 1.51ms",
                  "Average Time per Operation: 0.75ms", "Memory Usage:",
                  "Heap Used: 1.50 KB", "Heap Total: 1.00 MB",
                  "RSS: -2048.00 B" >>

\* C16: for an asynchronous operation that increments a shared counter on
\* entry and records its value, the recorded sequence is 1, 2, ... without
\* gaps and repeats at every moment, and it is exactly 1 .. N once
\* measurePerformance has run its N iterations.
C16_RecordedInOrder ==
  (fn # Undefined /\ fn.kind = "async") =>
    /\ recorded = [k \in 1 .. Len(recorded) |-> k]
    /\ Len(recorded) = Len(invocations)
    /\ pc \in {"snapshotFinal", "printResults", "resolved"}
         => recorded = [k \in 1 .. Turns(iterations) |-> k]

C16_Witness ==
  /\ pc = "resolved"
  /\ fn.kind = "async"
  /\ fn.awaits = 1
  /\ iterations = 4
  /\ Cardinality(InFlight) = 4
  /\ recorded = <<1, 2, 3, 4>>

\* C13: the harness keeps no state between calls.  Whatever calls a flow
\* made before, aborted ones included, its current call with count N starts
\* its loop at zero, invokes the operation at most N times and exactly N
\* times once the loop is left, stops at the invocation that throws, and
\* reports its own label, count, timestamps and snapshots: what a first
\* call does.
C13_LaterCallLikeFirstCall ==
  \A f \in Flows :
    LET fr == frames[f] IN
      /\ fr.calls <= Turns(fr.iterations)
      /\ fr.pc = "loop" => fr.i = fr.calls
      /\ fr.pc \in {"snapshotFinal", "printResults", "resolved"}
           => fr.calls = Turns(fr.iterations)
      /\ fr.pc = "rejected"
           => /\ fr.calls = fr.fn.throwAt
              /\ fr.report = headerLines(f, fr.iterations)
      /\ fr.pc = "resolved"
           => fr.report
                = headerLines(f, fr.iterations)
                    \o resultLines(duration(fr.startTime, fr.endTime),
                                   fr.iterations,
                                   memoryDeltas(fr.snapshots[1],
                                                fr.snapshots[2]))

C13_Witness ==
  /\ frames["A"].runs = 3
  /\ frames["A"].aborted = 1
  /\ frames["A"].pc = "resolved"
  /\ frames["A"].iterations = 2
  /\ frames["A"].calls = 2

\* C15: when the calls of two logical flows overlap, each call invokes its
\* own operation exactly its own N times and computes its deltas from its
\* own two snapshots: the values process.memoryUsage() returned to this
\* call before its loop and after it.
C15_FlowsKeepTheirOwnState ==
  \A f \in Flows :
    LET fr == frames[f] IN
      /\ fr.pc \in {"printHeader", "startTimer", "loop", "snapshotFinal"}
           => /\ Len(fr.snapshots) = 1
              /\ fr.initialMemory = fr.snapshots[1]
      /\ fr.pc \in {"printResults", "resolved"}
           => /\ Len(fr.snapshots) = 2
              /\ fr.initialMemory = fr.snapshots[1]
              /\ fr.finalMemory = fr.snapshots[2]
              /\ fr.calls = fr.iterations
      /\ fr.pc = "resolved"
           => fr.deltas
                = << fr.snapshots[2].heapUsed - fr.snapshots[1].heapUsed,
                     fr.snapshots[2].heapTotal - fr.snapshots[1].heapTotal,
                     fr.snapshots[2].rss - fr.snapshots[1].rss >>

C15_Witness ==
  /\ frames["A"].pc = "resolved"
  /\ frames["B"].pc = "resolved"
  /\ frames["A"].startTime < frames["B"].startTime
  /\ frames["B"].endTime < frames["A"].endTime
  /\ frames["A"].calls = 2
  /\ frames["B"].calls = 1
  /\ frames["A"].deltas # frames["B"].deltas

\* C17: the delayed callback of the timer-based rate limiters resets the
\* window: once every callback scheduled for a user has fired, the user's
\* stored count is 0, in RateLimitHandler and in
\* TraditionalRequestProcessor.
C17_CallbacksResetTheWindow ==
  \A l \in TimerLimiters, u \in Users :
    (/\ plan # <<>>
     /\ \A k \in 1 .. Len(timers) :
          ~(timers[k].owner = l /\ timers[k].userId = u))
      => get(counts[l], u) = 0

\* C18: with the timer-based RateLimitHandler, at most limit of a user's
\* requests are handed to the next handler in any interval of windowMs:
\* here, in the intervals made of two successive moments, which are
\* shorter.
C18_AtMostLimitPerWindow ==
  plan # <<>> =>
    \A u \in Users, k \in Moments :
      (k + 1 \in Moments /\ (k + 1) * TickMs - k * TickMs < windowMs)
        => passedAt[u][k] + passedAt[u][k + 1] <= limit

\* the timers a limiter has scheduled
timersOf(ts, limiter) == SelectSeq(ts, LAMBDA t : t.owner = limiter)

\* C19: in every rate limiter (both RateLimitHandler variants, both
\* TraditionalRequestProcessor variants, UserAccessManager.checkRateLimit)
\* no stored count ever exceeds the limit of 100, and a request the limiter
\* rejects leaves all its counts as they were, schedules nothing and is not
\* handed on; a request is rejected exactly when the user's count has
\* reached the limit.
C19_CountsWithinLimit ==
  /\ [](plan # <<>> =>
          \A l \in Limiters, u \in Users : get(counts[l], u) <= 100)
  /\ [][sent' = sent + 1 =>
          \A l \in Limiters :
            /\ verdict'[l] = "rejected"
                 => /\ counts'[l] = counts[l]
                    /\ timersOf(timers', l) = timersOf(timers, l)
                    /\ get(counts[l], plan[moment].user) = 100
                    /\ l = "RateLimitHandler.timer" => passedAt' = passedAt
            /\ verdict'[l] = "passed"
                 => /\ get(counts[l], plan[moment].user) < 100
                    /\ get(counts'[l], plan[moment].user)
                         = get(counts[l], plan[moment].user) + 1]_vars

C19_Witness ==
  /\ plan # <<>>
  /\ \A l \in Limiters :
       /\ verdict[l] = "rejected"
       /\ get(counts[l], 2) = 100
       /\ get(counts[l], 1) = 1

\* C20: the chain Authentication -> RateLimit -> Authorization ->
\* Validation and TraditionalRequestProcessor.processRequest, given the same
\* requests from the empty state, answer every request with the same
\* status and body and hold the same count for every user after it.
C20_ChainEqualsTraditional ==
  responses # <<>> =>
    /\ responses["RateLimitHandler"]
         = responses["TraditionalRequestProcessor"]
    /\ \A u \in Users :
         get(counts["RateLimitHandler"], u)
           = get(counts["TraditionalRequestProcessor"], u)

C20_Witness ==
  /\ responses # <<>>
  /\ responses["RateLimitHandler"] = Response(403, "Forbidden")
  /\ responses["TraditionalRequestProcessor"] = Response(403, "Forbidden")
  /\ get(counts["RateLimitHandler"], 1) = 3
  /\ get(counts["TraditionalRequestProcessor"], 1) = 3
  /\ get(counts["RateLimitHandler"], 2) = 100

\* the status the order authentication, rate limit, authorization,
\* validation gives a request, for the count its user has
statusInOrder(request, count) ==
  IF request.authorization = None \/ request.authorization = "" THEN 401
  ELSE IF count >= 100 THEN 429
  ELSE IF request.user.role # "admin"
            /\ \E prefix \in {"/admin", "/settings"} :
                 startsWith(request.path, prefix)
  THEN 403
  ELSE IF request.method \in {"POST", "PUT"}
            /\ (~request.body.truthy \/ request.body.type # "object")
  THEN 400
  ELSE 200

\* C21: in the chain and in processRequest the checks run in the order
\* authentication, rate limit, authorization, validation and the first
\* check that fails decides the response.  A request answered 401 (or 429)
\* leaves the counts as they are; a request answered 403 or 400 (or 200)
\* has added one to the count of its user and to no other.
C21_FirstFailingCheckDecides ==
  /\ [](responses # <<>> =>
          \A request \in Requests :
            LET id == request.user.id
                chain == handle(firstHandler, request,
                                counts["RateLimitHandler"])
                traditional ==
                  processRequest(request,
                                 counts["TraditionalRequestProcessor"])
                before == get(counts["RateLimitHandler"], id)
                status == statusInOrder(request, before)
            IN /\ chain.response.status = status
               /\ traditional.response.status = status
               /\ status \in {401, 429}
                    => /\ chain.requests = counts["RateLimitHandler"]
                       /\ traditional.requests
                            = counts["TraditionalRequestProcessor"]
               /\ status \in {403, 400, 200}
                    => /\ get(chain.requests, id) = before + 1
                       /\ get(traditional.requests, id) = before + 1
                       /\ \A u \in Users \ {id} :
                            get(chain.requests, u)
                              = get(counts["RateLimitHandler"], u))
  /\ [][responses # <<>> =>
          \A l \in Implementations :
            /\ responses'[l].status \in {401, 429} => counts'[l] = counts[l]
            /\ responses'[l].status \in {403, 400, 200}
                 => \E u \in Users :
                      /\ get(counts'[l], u) = get(counts[l], u) + 1
                      /\ \A v \in Users \ {u} :
                           get(counts'[l], v) = get(counts[l], v)]_vars

C21_Witness ==
  /\ responses # <<>>
  /\ responses["RateLimitHandler"] = Response(403, "Forbidden")
  /\ responses["TraditionalRequestProcessor"] = Response(403, "Forbidden")
  /\ get(counts["RateLimitHandler"], 1) = 100
  /\ get(counts["TraditionalRequestProcessor"], 1) = 100
  /\ get(counts["RateLimitHandler"], 2) = 0

(***************************************************************************)
(* The repositories of repository-benchmark.ts: InMemoryUserRepository     *)
(* keeps a Map, ArrayUserRepository an array, ObjectUserRepository an      *)
(* object.  A Map is modelled by its entries in insertion order, an        *)
(* object by a function from its keys.                                     *)
(***************************************************************************)
MaxRepositoryCalls == 4

Repositories ==
  {"Map-based Repository", "Array-based Repository",
   "Object-based Repository"}

UserIds == {1, 2}

UserNames == {"Test User", "Updated"}

\* new User(id, name, email): role has its default
User(id, userName, email) ==
  [id |-> id, name |-> userName, email |-> email, role |-> "user"]

RepositoryUsers ==
  {User(id, userName, "test@example.com") : id \in UserIds,
                                            userName \in UserNames}

\* new Error(`User not found: ${id}`)
UserNotFound(id) == "User not found: " \o ToString(id)

\* users.findIndex((u) => u.id === id); for a Map, the place of the key
\* among the entries
findIndex(users, id) ==
  IF \E k \in 1 .. Len(users) : users[k].id = id
  THEN CHOOSE k \in 1 .. Len(users) :
         /\ users[k].id = id
         /\ \A j \in 1 .. (k - 1) : users[j].id # id
  ELSE -1

\* users.splice(index, 1), and Map.delete of the entry at index
splice(users, index) ==
  SubSeq(users, 1, index - 1) \o SubSeq(users, index + 1, Len(users))

\* Object.values of an object with integer keys: in ascending key order
RECURSIVE values(_, _)
values(users, keys) ==
  IF keys = {}
  THEN <<>>
  ELSE LET key == CHOOSE k \in keys : \A other \in keys : k <= other
       IN <<users[key]>> \o values(users, keys \ {key})

\* what a call gives: the field users afterwards, what it returned and
\* what it threw
Outcome(users, returned, error) ==
  [users |-> users, returned |-> returned, thrown |-> error]

findById(repository, users, id) ==
  IF repository = "Object-based Repository"
  THEN IF id \in DOMAIN users
       THEN Outcome(users, users[id], None)
       ELSE Outcome(users, Undefined, UserNotFound(id))
  ELSE IF findIndex(users, id) # -1
       THEN Outcome(users, users[findIndex(users, id)], None)
       ELSE Outcome(users, Undefined, UserNotFound(id))

findAll(repository, users) ==
  IF repository = "Object-based Repository"
  THEN values(users, DOMAIN users)
  ELSE users

\* Map.set(key, value): a present key keeps its place
mapSet(users, user) ==
  IF findIndex(users, user.id) # -1
  THEN [users EXCEPT ![findIndex(users, user.id)] = user]
  ELSE Append(users, user)

\* users[key] = value on an object
objectSet(users, user) ==
  IF user.id \in DOMAIN users
  THEN [users EXCEPT ![user.id] = user]
  ELSE (user.id :> user) @@ users

save(repository, users, user) ==
  IF repository = "Map-based Repository"
  THEN Outcome(mapSet(users, user), Undefined, None)
  ELSE IF repository = "Array-based Repository"
  THEN Outcome(Append(users, user), Undefined, None)
  ELSE Outcome(objectSet(users, user), Undefined, None)

update(repository, users, user) ==
  IF repository = "Object-based Repository"
  THEN IF user.id \in DOMAIN users
       THEN Outcome(objectSet(users, user), Undefined, None)
       ELSE Outcome(users, Undefined, UserNotFound(user.id))
  ELSE IF findIndex(users, user.id) # -1
       THEN Outcome([users EXCEPT ![findIndex(users, user.id)] = user],
                    Undefined, None)
       ELSE Outcome(users, Undefined, UserNotFound(user.id))

delete(repository, users, id) ==
  IF repository = "Object-based Repository"
  THEN IF id \in DOMAIN users
       THEN Outcome([key \in DOMAIN users \ {id} |-> users[key]],
                    Undefined, None)
       ELSE Outcome(users, Undefined, UserNotFound(id))
  ELSE IF findIndex(users, id) # -1
       THEN Outcome(splice(users, findIndex(users, id)), Undefined, None)
       ELSE Outcome(users, Undefined, UserNotFound(id))

\* the harness and the other parts of the model at rest
HarnessIdle ==
  /\ pc = "idle"
  /\ name = None
  /\ iterations = 0
  /\ fn = Undefined
  /\ initialMemory = Undefined
  /\ startTime = NotCaptured
  /\ i = 0
  /\ endTime = NotCaptured
  /\ finalMemory = Undefined
  /\ rejection = None
  /\ clock = 0
  /\ invocations = <<>>
  /\ console = <<>>
  /\ trace = <<>>
  /\ formatted = <<>>
  /\ bytes = 0
  /\ result = Undefined
  /\ OperationInit
  /\ frames = <<>>
  /\ LimitersIdle

\* private users = new Map(), = [] and = {}
RepositoryInit ==
  /\ HarnessIdle
  /\ repositories = [repository \in Repositories |-> <<>>]
  /\ thrown = [repository \in Repositories |-> None]
  /\ repositoryCalls = <<>>
  /\ EditorsIdle
  /\ ServicesIdle
  /\ RegistrationsIdle
  /\ EntitiesIdle

\* what a call on every repository leaves alone
repositoryFrame == <<bytes, result, harnessVars, operationVars, frames,
                     limiterVars, editorVars, serviceVars,
                     registrationVars, entityVars>>

\* repository.save(user) on each of the three
Save ==
  /\ Len(repositoryCalls) < MaxRepositoryCalls
  /\ \E user \in RepositoryUsers :
       /\ repositories' =
            [repository \in Repositories |->
               save(repository, repositories[repository], user).users]
       /\ thrown' =
            [repository \in Repositories |->
               save(repository, repositories[repository], user).thrown]
       /\ repositoryCalls' =
            Append(repositoryCalls,
                   [method |-> "save", id |-> user.id, user |-> user])
  /\ UNCHANGED repositoryFrame

\* repository.update(user) on each of the three
Update ==
  /\ Len(repositoryCalls) < MaxRepositoryCalls
  /\ \E user \in RepositoryUsers :
       /\ repositories' =
            [repository \in Repositories |->
               update(repository, repositories[repository], user).users]
       /\ thrown' =
            [repository \in Repositories |->
               update(repository, repositories[repository], user).thrown]
       /\ repositoryCalls' =
            Append(repositoryCalls,
                   [method |-> "update", id |-> user.id, user |-> user])
  /\ UNCHANGED repositoryFrame

\* repository.delete(id) on each of the three
Delete ==
  /\ Len(repositoryCalls) < MaxRepositoryCalls
  /\ \E id \in UserIds :
       /\ repositories' =
            [repository \in Repositories |->
               delete(repository, repositories[repository], id).users]
       /\ thrown' =
            [repository \in Repositories |->
               delete(repository, repositories[repository], id).thrown]
       /\ repositoryCalls' =
            Append(repositoryCalls,
                   [method |-> "delete", id |-> id, user |-> Undefined])
  /\ UNCHANGED repositoryFrame

RepositoryNext == Save \/ Update \/ Delete

RepositorySpec == RepositoryInit /\ [][RepositoryNext]_vars

\* repository.findById(id): the user it returns or the error it throws
found(repository, id) ==
  LET outcome == findById(repository, repositories[repository], id)
  IN [returned |-> outcome.returned, thrown |-> outcome.thrown]

\* repository.findAll()
all(repository) == findAll(repository, repositories[repository])

\* C22: after the same sequence of save, update and delete calls the three
\* repositories answer alike: findById(id) returns the same user or throws
\* the same "User not found" error in each, and findAll returns the same
\* users.
C22_RepositoriesAnswerAlike ==
  \A a, b \in Repositories :
    /\ \A id \in UserIds : found(a, id) = found(b, id)
    /\ all(a) = all(b)

\* C23: a repository holds at most one user per id; save of a user whose
\* id is present replaces the stored user; after a delete(id) that did not
\* throw, findById(id) throws.
C23_OneUserPerId ==
  /\ [](\A repository \in Repositories :
          \A id \in UserIds :
            Cardinality({k \in 1 .. Len(all(repository)) :
                           all(repository)[k].id = id}) <= 1)
  /\ [][repositoryCalls' # repositoryCalls =>
         \A repository \in Repositories :
           LET last == repositoryCalls'[Len(repositoryCalls')]
               before == repositories[repository]
               after == repositories'[repository]
           IN /\ last.method = "save" =>
                   /\ findById(repository, after, last.id).returned
                        = last.user
                   /\ findById(repository, before, last.id).thrown = None
                        => Len(findAll(repository, after))
                             = Len(findAll(repository, before))
              /\ (last.method = "delete" /\ thrown'[repository] = None) =>
                   findById(repository, after, last.id).thrown
                     = UserNotFound(last.id)]_vars

(***************************************************************************)
(* The editors of command-pattern.ts and no-command-pattern.ts: a Document *)
(* edited through commands kept by a CommandInvoker, and a SimpleDocument  *)
(* that keeps its own history.                                             *)
(***************************************************************************)
MaxEdits == 4

Texts == {"Hello, World! ", "ab"}

\* the arguments of DeleteTextCommand and deleteText: startIndex, length
Ranges == {<<0, 5>>, <<1, 1>>, <<3, 20>>}

Min(a, b) == IF a < b THEN a ELSE b

Max(a, b) == IF a > b THEN a ELSE b

\* String.prototype.substring(start, end): both indexes are clamped to
\* 0 .. length and swapped when start > end
substring(content, start, end) ==
  LET from == Min(Max(start, 0), Len(content))
      to == Min(Max(end, 0), Len(content))
  IN SubSeq(content, Min(from, to) + 1, Max(from, to))

\* String.prototype.substring(start)
substringFrom(content, start) == substring(content, start, Len(content))

\* new AddTextCommand(document, textToAdd)
AddTextCommand(content, textToAdd) ==
  [class |-> "AddTextCommand", textToAdd |-> textToAdd, startIndex |-> 0,
   length |-> 0, previousContent |-> content]

\* new DeleteTextCommand(document, startIndex, length)
DeleteTextCommand(content, startIndex, length) ==
  [class |-> "DeleteTextCommand", textToAdd |-> "",
   startIndex |-> startIndex, length |-> length,
   previousContent |-> content]

\* the commands a caller can construct on a document of this content
Commands(content) ==
  {AddTextCommand(content, text) : text \in Texts}
    \cup {DeleteTextCommand(content, range[1], range[2]) : range \in Ranges}

\* command.execute(): the content it sets
execute(c, currentContent) ==
  IF c.class = "AddTextCommand"
  THEN currentContent \o c.textToAdd
  ELSE substring(currentContent, 0, c.startIndex)
         \o substringFrom(currentContent, c.startIndex + c.length)

\* command.undo(): the content it sets
undoCommand(c) == c.previousContent

\* CommandInvoker.executeCommand(command)
executeCommand(content, history, c) ==
  [content |-> execute(c, content), commandHistory |-> Append(history, c)]

\* CommandInvoker.undo()
invokerUndo(content, history) ==
  IF history # <<>>
  THEN [content |-> undoCommand(history[Len(history)]),
        commandHistory |-> SubSeq(history, 1, Len(history) - 1)]
  ELSE [content |-> content, commandHistory |-> history]

\* SimpleDocument.addText(text)
addText(doc, text) ==
  [content |-> doc.content \o text,
   history |-> Append(doc.history, doc.content)]

deleteTextWithoutHistory(doc, startIndex, length) ==
  [content |-> substring(doc.content, 0, startIndex)
                 \o substringFrom(doc.content, startIndex + length),
   history |-> doc.history]

\* SimpleDocument.deleteText(startIndex, length)
deleteText(doc, startIndex, length) ==
  [content |-> substring(doc.content, 0, startIndex)
                 \o substringFrom(doc.content, startIndex + length),
   history |-> Append(doc.history, doc.content)]

\* SimpleDocument.undo()
simpleUndo(doc) ==
  IF doc.history # <<>>
  THEN [content |-> doc.history[Len(doc.history)],
        history |-> SubSeq(doc.history, 1, Len(doc.history) - 1)]
  ELSE doc

\* the edit a command makes, on a SimpleDocument
simpleEdit(doc, c) ==
  IF c.class = "AddTextCommand"
  THEN addText(doc, c.textToAdd)
  ELSE deleteText(doc, c.startIndex, c.length)

\* new Document(), new CommandInvoker(), new SimpleDocument()
EditorInit ==
  /\ HarnessIdle
  /\ RepositoriesIdle
  /\ ServicesIdle
  /\ RegistrationsIdle
  /\ EntitiesIdle
  /\ document = ""
  /\ commandHistory = <<>>
  /\ command = Undefined
  /\ contentBefore = <<>>
  /\ simple = [content |-> "", history |-> <<>>]
  /\ edits = <<>>

\* what an edit leaves alone
editorFrame == <<bytes, result, harnessVars, operationVars, frames,
                 limiterVars, repositoryVars, serviceVars,
                 registrationVars, entityVars>>

\* the invoker runs command c, and the SimpleDocument makes the same edit
Executed(c, edit) ==
  LET done == executeCommand(document, commandHistory, c)
  IN /\ document' = done.content
     /\ commandHistory' = done.commandHistory
     /\ contentBefore' = Append(contentBefore, document)
     /\ simple' = simpleEdit(simple, c)
     /\ edits' = Append(edits, edit)

\* const command = new AddTextCommand(document, text);
\* invoker.executeCommand(command); and document.addText(text)
AddText ==
  /\ Len(edits) < MaxEdits
  /\ \E text \in Texts : Executed(AddTextCommand(document, text), "add")
  /\ UNCHANGED <<command, editorFrame>>

\* const command = new DeleteTextCommand(document, startIndex, length);
\* invoker.executeCommand(command); and document.deleteText(startIndex,
\* length)
DeleteText ==
  /\ Len(edits) < MaxEdits
  /\ \E range \in Ranges :
       Executed(DeleteTextCommand(document, range[1], range[2]), "delete")
  /\ UNCHANGED <<command, editorFrame>>

\* invoker.undo() and document.undo()
Undo ==
  /\ Len(edits) < MaxEdits
  /\ LET undone == invokerUndo(document, commandHistory)
     IN /\ document' = undone.content
        /\ commandHistory' = undone.commandHistory
        /\ contentBefore' =
             SubSeq(contentBefore, 1, Len(undone.commandHistory))
  /\ simple' = simpleUndo(simple)
  /\ edits' = Append(edits, "undo")
  /\ UNCHANGED <<command, editorFrame>>

EditorNext == AddText \/ DeleteText \/ Undo

EditorSpec == EditorInit /\ [][EditorNext]_vars

\* a caller constructs a command and keeps it
Construct ==
  /\ Len(edits) < MaxEdits
  /\ \E c \in Commands(document) : command' = c
  /\ edits' = Append(edits, "construct")
  /\ UNCHANGED <<document, commandHistory, contentBefore, simple,
                 editorFrame>>

\* invoker.executeCommand(command) with the command kept earlier
ExecuteCommand ==
  /\ Len(edits) < MaxEdits
  /\ command # Undefined
  /\ Executed(command, "execute")
  /\ UNCHANGED <<command, editorFrame>>

CommandNext == Construct \/ ExecuteCommand \/ AddText \/ DeleteText \/ Undo

CommandSpec == EditorInit /\ [][CommandNext]_vars

\* C24: CommandInvoker.undo reverts the most recently executed command that
\* is not yet undone, whenever the command was constructed: the command
\* leaves commandHistory and the content is what it was before that
\* command's execute ran.  With an empty history undo changes nothing.
C24_UndoRestoresContentBeforeExecute ==
  [][(edits' # edits /\ edits'[Len(edits')] = "undo") =>
       IF commandHistory = <<>>
       THEN document' = document /\ commandHistory' = <<>>
       ELSE /\ commandHistory'
                 = SubSeq(commandHistory, 1, Len(commandHistory) - 1)
            /\ document' = contentBefore[Len(contentBefore)]]_vars

\* C25: with every command constructed when it is executed, the document
\* of the command editor and the SimpleDocument have the same content
\* after every edit, and as many edits left to undo.
C25_EditorsHaveSameContent ==
  /\ document = simple.content
  /\ Len(commandHistory) = Len(simple.history)
  /\ \A k \in 1 .. Len(commandHistory) :
       commandHistory[k].previousContent = simple.history[k]

C25_Witness ==
  /\ Len(edits) = MaxEdits
  /\ edits[1] = "add"
  /\ edits[2] = "add"
  /\ edits[3] = "delete"
  /\ edits[4] = "undo"
  /\ document = "Hello, World! ab"
  /\ simple.content = "Hello, World! ab"

(***************************************************************************)
(* The user services of result-pattern-benchmark.ts: UserServiceWithResult *)
(* returns a Result, UserServiceTraditional returns the user or throws.    *)
(***************************************************************************)
MaxServiceCalls == 3

UserServices == {"UserServiceWithResult", "UserServiceTraditional"}

ServiceNames == {"", "A", " A ", "Al", " Al ", "Test User"}

ServiceEmails == {"", "invalid-email", "al@example.com", "Al@Example.com",
                  "bo@example.com"}

ServiceAges == {-1, 0, 150, 151}

UpperCase == "ABCDEFGHIJKLMNOPQRSTUVWXYZ"

LowerCase == "abcdefghijklmnopqrstuvwxyz"

\* the character of a string at place k, counted from 1
charAt(string, k) == SubSeq(string, k, k)

\* the lower-case form of one character
toLowerCaseChar(char) ==
  IF \E k \in 1 .. Len(UpperCase) : charAt(UpperCase, k) = char
  THEN charAt(LowerCase,
              CHOOSE k \in 1 .. Len(UpperCase) : charAt(UpperCase, k) = char)
  ELSE char

\* String.prototype.toLowerCase()
RECURSIVE toLowerCase(_)
toLowerCase(string) ==
  IF string = ""
  THEN ""
  ELSE toLowerCaseChar(charAt(string, 1))
         \o toLowerCase(SubSeq(string, 2, Len(string)))

\* String.prototype.trim(): white space is removed from both ends
RECURSIVE trim(_)
trim(string) ==
  IF string = ""
  THEN ""
  ELSE IF charAt(string, 1) = " "
  THEN trim(SubSeq(string, 2, Len(string)))
  ELSE IF charAt(string, Len(string)) = " "
  THEN trim(SubSeq(string, 1, Len(string) - 1))
  ELSE string

\* String.prototype.includes(char), for a string of one character
includes(string, char) ==
  \E k \in 1 .. Len(string) : charAt(string, k) = char

\* this.users.get(id), undefined when the key is absent
mapGet(map, key) == IF key \in DOMAIN map THEN map[key] ELSE Undefined

\* the validation and the duplicate check of createUser: the message of
\* the first failing check, None when all pass
createUserError(service, userName, email, age) ==
  IF userName = "" \/ Len(trim(userName)) < 2
  THEN "Name must be at least 2 characters long"
  ELSE IF email = "" \/ ~includes(email, "@")
  THEN "Invalid email format"
  ELSE IF age < 0 \/ age > 150
  THEN "Invalid age"
  ELSE IF \E id \in DOMAIN service.users :
            toLowerCase(service.users[id].email) = toLowerCase(email)
  THEN "Email already exists: " \o email
  ELSE None

\* const user: User = {id: this.nextId++, name: name.trim(),
\* email: normalizedEmail, age}
newUser(service, userName, email, age) ==
  [id |-> service.nextId, name |-> trim(userName),
   email |-> toLowerCase(email), age |-> age]

\* this.users.set(user.id, user), after this.nextId++
withUser(service, user) ==
  [users |-> set(service.users, user.id, user),
   nextId |-> service.nextId + 1]

\* UserServiceWithResult.createUser(name, email, age)
createUserWithResult(service, userName, email, age) ==
  IF createUserError(service, userName, email, age) # None
  THEN [service |-> service,
        result |-> [type |-> "failure",
                    error |-> createUserError(service, userName, email,
                                              age)]]
  ELSE [service |-> withUser(service, newUser(service, userName, email,
                                              age)),
        result |-> [type |-> "success",
                    value |-> newUser(service, userName, email, age)]]

createUserTraditionalKeepingCase(service, userName, email, age) ==
  IF createUserError(service, userName, email, age) # None
  THEN [service |-> service,
        result |-> [returned |-> Undefined,
                    thrown |-> createUserError(service, userName, email,
                                               age)]]
  ELSE [service |-> withUser(service,
                             [newUser(service, userName, email, age)
                                EXCEPT !.email = email]),
        result |-> [returned |-> [newUser(service, userName, email, age)
                                    EXCEPT !.email = email],
                    thrown |-> None]]

createUserTraditionalCountingFailures(service, userName, email, age) ==
  IF createUserError(service, userName, email, age) # None
  THEN [service |-> [service EXCEPT !.nextId = @ + 1],
        result |-> [returned |-> Undefined,
                    thrown |-> createUserError(service, userName, email,
                                               age)]]
  ELSE [service |-> withUser(service, newUser(service, userName, email,
                                              age)),
        result |-> [returned |-> newUser(service, userName, email, age),
                    thrown |-> None]]

\* UserServiceTraditional.createUser(name, email, age)
createUserTraditional(service, userName, email, age) ==
  IF createUserError(service, userName, email, age) # None
  THEN [service |-> service,
        result |-> [returned |-> Undefined,
                    thrown |-> createUserError(service, userName, email,
                                               age)]]
  ELSE [service |-> withUser(service, newUser(service, userName, email,
                                              age)),
        result |-> [returned |-> newUser(service, userName, email, age),
                    thrown |-> None]]

\* UserServiceWithResult.getUser(id)
getUserWithResult(service, id) ==
  IF mapGet(service.users, id) = Undefined
  THEN [type |-> "failure",
        error |-> "User not found with id: " \o ToString(id)]
  ELSE [type |-> "success", value |-> mapGet(service.users, id)]

\* UserServiceTraditional.getUser(id)
getUserTraditional(service, id) ==
  IF mapGet(service.users, id) = Undefined
  THEN [returned |-> Undefined,
        thrown |-> "User not found with id: " \o ToString(id)]
  ELSE [returned |-> mapGet(service.users, id), thrown |-> None]

\* new UserServiceWithResult(), new UserServiceTraditional()
ServiceInit ==
  /\ HarnessIdle
  /\ RepositoriesIdle
  /\ EditorsIdle
  /\ RegistrationsIdle
  /\ EntitiesIdle
  /\ userServices =
       [service \in UserServices |-> [users |-> <<>>, nextId |-> 1]]
  /\ created = [service \in UserServices |-> Undefined]
  /\ successes = 0
  /\ serviceCalls = 0

\* what a call of createUser leaves alone
serviceFrame == <<bytes, result, harnessVars, operationVars, frames,
                  limiterVars, repositoryVars, editorVars,
                  registrationVars, entityVars>>

\* resultService.createUser(name, email, age) and
\* traditionalService.createUser(name, email, age)
CreateUser ==
  /\ serviceCalls < MaxServiceCalls
  /\ \E userName \in ServiceNames, email \in ServiceEmails,
        age \in ServiceAges :
       LET withResult ==
             createUserWithResult(userServices["UserServiceWithResult"],
                                  userName, email, age)
           traditional ==
             createUserTraditional(userServices["UserServiceTraditional"],
                                   userName, email, age)
       IN /\ userServices' =
               [userServices EXCEPT
                  !["UserServiceWithResult"] = withResult.service,
                  !["UserServiceTraditional"] = traditional.service]
          /\ created' =
               [created EXCEPT
                  !["UserServiceWithResult"] = withResult.result,
                  !["UserServiceTraditional"] = traditional.result]
          /\ successes' =
               IF withResult.result.type = "success"
               THEN successes + 1
               ELSE successes
  /\ serviceCalls' = serviceCalls + 1
  /\ UNCHANGED serviceFrame

ServiceNext == CreateUser

ServiceSpec == ServiceInit /\ [][ServiceNext]_vars

\* a Result and the outcome of the throwing method say the same
sameOutcome(withResult, traditional) ==
  /\ withResult.type = "failure" <=> traditional.thrown # None
  /\ withResult.type = "failure" =>
       withResult.error = traditional.thrown
  /\ withResult.type = "success" =>
       withResult.value = traditional.returned

\* the ids getUser is asked for
AskedIds == 0 .. (MaxServiceCalls + 1)

\* C26: given the same calls, UserServiceWithResult returns a failure with
\* error m exactly when UserServiceTraditional throws an Error with message
\* m, a success carries the user the traditional service returns, and the
\* two services hold the same users and the same nextId.
C26_ResultEqualsTraditional ==
  /\ serviceCalls > 0 =>
       sameOutcome(created["UserServiceWithResult"],
                   created["UserServiceTraditional"])
  /\ userServices["UserServiceWithResult"]
       = userServices["UserServiceTraditional"]
  /\ \A id \in AskedIds :
       sameOutcome(getUserWithResult(userServices["UserServiceWithResult"],
                                     id),
                   getUserTraditional(
                     userServices["UserServiceTraditional"], id))

C26_Witness ==
  /\ serviceCalls = MaxServiceCalls
  /\ successes = 1
  /\ created["UserServiceWithResult"]
       = [type |-> "failure",
          error |-> "Email already exists: Al@Example.com"]
  /\ created["UserServiceTraditional"].thrown
       = "Email already exists: Al@Example.com"
  /\ getUserWithResult(userServices["UserServiceWithResult"], 1).type
       = "success"

\* C27: after k successful calls of createUser a service holds exactly the
\* ids 1 .. k, each under its own key, and nextId is k + 1; a call of
\* createUser that fails changes neither the users nor nextId.
C27_IdsAreOneToK ==
  /\ [](\A service \in UserServices :
          /\ DOMAIN userServices[service].users = 1 .. successes
          /\ \A id \in 1 .. successes :
               userServices[service].users[id].id = id
          /\ userServices[service].nextId = successes + 1)
  /\ [][(serviceCalls' # serviceCalls /\ successes' = successes) =>
          userServices' = userServices]_vars

C27_Witness ==
  /\ successes = 2
  /\ serviceCalls = MaxServiceCalls
  /\ created["UserServiceTraditional"].thrown = "Invalid age"
  /\ DOMAIN userServices["UserServiceTraditional"].users = {1, 2}

(***************************************************************************)
(* registerUserWithValidation of ComplexUserServiceWithRepository, whose   *)
(* repository is an InMemoryUserRepository, and of                         *)
(* ComplexUserServiceDirect.  Both keep their users in a Map by id.        *)
(***************************************************************************)
MaxRegistrations == 3

userQuota == 1000

ComplexServices ==
  {"ComplexUserServiceWithRepository", "ComplexUserServiceDirect"}

\* Math.floor(Math.random() * 1000000), drawn from a few values
RandomIds == {1, 2}

RegistrationNames == {"", "A", "Al", " Al "}

RegistrationEmails ==
  {"", "invalid-email", "al@example.com", "Al@Example.com"}

\* private validateUserQuota(currentCount)
validateUserQuota(currentCount) ==
  IF currentCount >= userQuota THEN "User quota exceeded" ELSE None

\* the tests of registerUserWithValidation: the message of the first one
\* that throws, None when none does
registrationError(users, userName, email) ==
  IF userName = "" \/ Len(userName) < 2
  THEN "Invalid name"
  ELSE IF email = "" \/ ~includes(email, "@")
  THEN "Invalid email"
  ELSE IF \E id \in DOMAIN users : users[id].email = email
  THEN "Email already exists"
  ELSE validateUserQuota(Cardinality(DOMAIN users))

\* registerUserWithValidation(name, email), with id what Math.random gave
registerUserWithValidation(users, id, userName, email) ==
  IF registrationError(users, userName, email) # None
  THEN Outcome(users, Undefined, registrationError(users, userName, email))
  ELSE Outcome(set(users, id, User(id, trim(userName), toLowerCase(email))),
               User(id, trim(userName), toLowerCase(email)), None)

\* new InMemoryUserRepository(), new ComplexUserServiceWithRepository(
\* repository), new ComplexUserServiceDirect()
RegistrationInit ==
  /\ HarnessIdle
  /\ RepositoriesIdle
  /\ EditorsIdle
  /\ ServicesIdle
  /\ EntitiesIdle
  /\ complexServices = [service \in ComplexServices |-> <<>>]
  /\ registered = Undefined
  /\ registrations = 0

\* what a registration leaves alone
registrationFrame == <<bytes, result, harnessVars, operationVars, frames,
                       limiterVars, repositoryVars, editorVars,
                       serviceVars, entityVars>>

\* complexServiceWithRepo.registerUserWithValidation(name, email) or
\* complexServiceDirect.registerUserWithValidation(name, email)
Register ==
  /\ registrations < MaxRegistrations
  /\ \E service \in ComplexServices, id \in RandomIds,
        userName \in RegistrationNames, email \in RegistrationEmails :
       LET outcome ==
             registerUserWithValidation(complexServices[service], id,
                                        userName, email)
       IN /\ complexServices' =
               [complexServices EXCEPT ![service] = outcome.users]
          /\ registered' =
               [service |-> service, name |-> userName, email |-> email,
                returned |-> outcome.returned, thrown |-> outcome.thrown]
  /\ registrations' = registrations + 1
  /\ UNCHANGED registrationFrame

RegistrationNext == Register

RegistrationSpec == RegistrationInit /\ [][RegistrationNext]_vars

\* the emails a service stores
storedEmails(users) == {users[id].email : id \in DOMAIN users}

\* C28: the emails a registration service stores are unique, and a call of
\* registerUserWithValidation whose email, lower-cased as it would be
\* stored, is stored already throws "Email already exists" and stores
\* nothing.
C28_StoredEmailsAreUnique ==
  /\ [](\A service \in ComplexServices :
          \A a, b \in DOMAIN complexServices[service] :
            a # b => complexServices[service][a].email
                       # complexServices[service][b].email)
  /\ [][(registrations' # registrations
         /\ Len(registered'.name) >= 2
         /\ toLowerCase(registered'.email)
              \in storedEmails(complexServices[registered'.service]))
        => (registered'.thrown = "Email already exists"
            /\ complexServices' = complexServices)]_vars

(***************************************************************************)
(* The services of entity-comparison-benchmark.ts: UserServiceWithEntity   *)
(* stores UserEntity objects, UserServiceWithPlainObject stores UserPlain  *)
(* objects.  A stored object is a record of its fields.                    *)
(***************************************************************************)
MaxEntityCalls == 3

EntityServices == {"UserServiceWithEntity", "UserServiceWithPlainObject"}

\* generateId(): Math.floor(Math.random() * 1000000), drawn from a few
\* values
GeneratedIds == {1, 2}

RECURSIVE repeat(_, _)
repeat(string, count) ==
  IF count = 0 THEN "" ELSE string \o repeat(string, count - 1)

\* a name of 101 characters
LongName == repeat("n", 101)

EntityNames == {"A", "Test Entity", LongName}

EntityEmails == {"invalid-email", "test.entity@example.com"}

EntityAges == {-1, 25, 151}

\* validateName(name): the message of the error it throws, None when it
\* returns
validateName(userName) ==
  IF userName = "" \/ Len(userName) < 2
  THEN "Name must be at least 2 characters long"
  ELSE IF Len(userName) > 100
  THEN "Name must be less than 100 characters"
  ELSE None

\* validateEmail(email)
validateEmail(email) ==
  IF email = "" \/ ~includes(email, "@")
  THEN "Invalid email format"
  ELSE None

\* validateAge(age)
validateAge(age) ==
  IF age < 0 \/ age > 150 THEN "Invalid age" ELSE None

\* UserServiceWithPlainObject.validateUserData(name, email, age)
validateUserData(userName, email, age) ==
  IF validateName(userName) # None
  THEN validateName(userName)
  ELSE IF validateEmail(email) # None
  THEN validateEmail(email)
  ELSE validateAge(age)

\* new UserEntity(id, name, email, age), and the UserPlain object literal
\* of createUser
UserEntity(id, userName, email, age, today) ==
  [id |-> id, name |-> userName, email |-> email, age |-> age,
   status |-> "active", createdAt |-> today, updatedAt |-> today]

\* UserServiceWithEntity.createUser(name, email, age)
createUserWithEntity(users, id, userName, email, age, today) ==
  Outcome(set(users, id, UserEntity(id, userName, email, age, today)),
          UserEntity(id, userName, email, age, today), None)

\* UserServiceWithPlainObject.createUser(name, email, age)
createUserWithPlainObject(users, id, userName, email, age, today) ==
  IF validateUserData(userName, email, age) # None
  THEN Outcome(users, Undefined, validateUserData(userName, email, age))
  ELSE Outcome(set(users, id, UserEntity(id, userName, email, age, today)),
               UserEntity(id, userName, email, age, today), None)

\* UserServiceWithEntity.updateUser(id, name, email, age): the setters of
\* UserEntity run one after the other, and each validates before it
\* assigns
updateUserWithEntity(users, id, userName, email, age, today) ==
  IF id \notin DOMAIN users
  THEN Outcome(users, Undefined, "User not found")
  ELSE IF validateName(userName) # None
  THEN Outcome(users, Undefined, validateName(userName))
  ELSE LET named == [users EXCEPT ![id].name = userName,
                                  ![id].updatedAt = today]
       IN IF validateEmail(email) # None
          THEN Outcome(named, Undefined, validateEmail(email))
          ELSE LET mailed == [named EXCEPT ![id].email = email]
               IN IF validateAge(age) # None
                  THEN Outcome(mailed, Undefined, validateAge(age))
                  ELSE Outcome([mailed EXCEPT ![id].age = age],
                               [mailed EXCEPT ![id].age = age][id], None)

\* UserServiceWithPlainObject.updateUser(id, name, email, age)
updateUserWithPlainObject(users, id, userName, email, age, today) ==
  IF validateUserData(userName, email, age) # None
  THEN Outcome(users, Undefined, validateUserData(userName, email, age))
  ELSE IF id \notin DOMAIN users
  THEN Outcome(users, Undefined, "User not found")
  ELSE LET updated == [users EXCEPT ![id].name = userName,
                                    ![id].email = email,
                                    ![id].age = age,
                                    ![id].updatedAt = today]
       IN Outcome(updated, updated[id], None)

\* deactivateUser(id), the same in both services
deactivateUser(users, id, today) ==
  IF id \notin DOMAIN users
  THEN Outcome(users, Undefined, "User not found")
  ELSE Outcome([users EXCEPT ![id].status = "inactive",
                             ![id].updatedAt = today],
               Undefined, None)

\* new UserServiceWithEntity(), new UserServiceWithPlainObject()
EntityInit ==
  /\ HarnessIdle
  /\ RepositoriesIdle
  /\ EditorsIdle
  /\ ServicesIdle
  /\ RegistrationsIdle
  /\ entityServices = [service \in EntityServices |-> <<>>]
  /\ answered = [service \in EntityServices |-> Undefined]
  /\ date = 0
  /\ entityCall = Undefined

\* what a call on the two services leaves alone
entityFrame == <<bytes, result, harnessVars, operationVars, frames,
                 limiterVars, repositoryVars, editorVars, serviceVars,
                 registrationVars>>

\* the two services have answered a call
Answered(method, id, withEntity, withPlain) ==
  /\ entityServices' =
       [entityServices EXCEPT
          !["UserServiceWithEntity"] = withEntity.users,
          !["UserServiceWithPlainObject"] = withPlain.users]
  /\ answered' =
       [answered EXCEPT
          !["UserServiceWithEntity"] =
             [returned |-> withEntity.returned,
              thrown |-> withEntity.thrown],
          !["UserServiceWithPlainObject"] =
             [returned |-> withPlain.returned, thrown |-> withPlain.thrown]]
  /\ entityCall' = [method |-> method, id |-> id]
  /\ date' = date + 1
  /\ UNCHANGED entityFrame

\* serviceWithEntity.createUser(name, email, age) and
\* serviceWithPlain.createUser(name, email, age), generateId giving the
\* same id in both
EntityCreateUser ==
  /\ date < MaxEntityCalls
  /\ \E id \in GeneratedIds, userName \in EntityNames,
        email \in EntityEmails, age \in EntityAges :
       Answered("createUser", id,
                createUserWithEntity(
                  entityServices["UserServiceWithEntity"], id, userName,
                  email, age, date + 1),
                createUserWithPlainObject(
                  entityServices["UserServiceWithPlainObject"], id,
                  userName, email, age, date + 1))

\* serviceWithEntity.updateUser(id, name, email, age) and
\* serviceWithPlain.updateUser(id, name, email, age)
EntityUpdateUser ==
  /\ date < MaxEntityCalls
  /\ \E id \in GeneratedIds, userName \in EntityNames,
        email \in EntityEmails, age \in EntityAges :
       Answered("updateUser", id,
                updateUserWithEntity(
                  entityServices["UserServiceWithEntity"], id, userName,
                  email, age, date + 1),
                updateUserWithPlainObject(
                  entityServices["UserServiceWithPlainObject"], id,
                  userName, email, age, date + 1))

\* serviceWithEntity.deactivateUser(id) and
\* serviceWithPlain.deactivateUser(id)
EntityDeactivateUser ==
  /\ date < MaxEntityCalls
  /\ \E id \in GeneratedIds :
       Answered("deactivateUser", id,
                deactivateUser(entityServices["UserServiceWithEntity"], id,
                               date + 1),
                deactivateUser(entityServices["UserServiceWithPlainObject"],
                               id, date + 1))

EntityNext == EntityCreateUser \/ EntityUpdateUser \/ EntityDeactivateUser

EntitySpec == EntityInit /\ [][EntityNext]_vars

\* the fields of a stored user the two services are compared on
compared(user) ==
  [name |-> user.name, email |-> user.email, age |-> user.age,
   status |-> user.status]

\* C29: given the same calls, UserServiceWithEntity and
\* UserServiceWithPlainObject accept and reject the same calls, reject with
\* the same error message, and store users of equal name, email, age and
\* status.
C29_EntityEqualsPlainObject ==
  /\ entityCall # Undefined =>
       answered["UserServiceWithEntity"].thrown
         = answered["UserServiceWithPlainObject"].thrown
  /\ DOMAIN entityServices["UserServiceWithEntity"]
       = DOMAIN entityServices["UserServiceWithPlainObject"]
  /\ \A id \in DOMAIN entityServices["UserServiceWithEntity"] :
       id \in DOMAIN entityServices["UserServiceWithPlainObject"] =>
         compared(entityServices["UserServiceWithEntity"][id])
           = compared(entityServices["UserServiceWithPlainObject"][id])

\* C30: updateUser is all or nothing in both services: when it throws, the
\* name, email, age and updatedAt of every stored user are what they were
\* before the call.
C30_UpdateUserIsAllOrNothing ==
  [][\A service \in EntityServices :
       (date' # date
        /\ entityCall'.method = "updateUser"
        /\ answered'[service].thrown # None)
       => entityServices'[service] = entityServices[service]]_vars

====
